---- MODULE Spec2Model ----
(***************************************************************************)
(* trackerZ: the phase transition engine and its audit tables.             *)
(*                                                                         *)
(* The state is the content of the tables the repositories work on         *)
(* (projects, tasks, subtasks and the three *_updates history tables) and  *)
(* what the last call returned. Every action is one call of one handler.   *)
(* The arguments of a call are not kept in the state: a property about a   *)
(* call quantifies over them and names the handler's action. Where calls   *)
(* of two callers interleave, calls holds how far each of them has come.   *)
(***************************************************************************)
EXTENDS Integers, Sequences, FiniteSets, TLC

\* ------------------------------------------------------------------ bounds
MaxUpdates == 3
MaxRepoFailures == 1
MaxRepoUpdates == 5
MaxEdits == 2
MaxLen == 3
MaxRequests == 1

\* ------------------------------------------------------- program constants
Open == 1
InProgress == 2
InHiatus == 3
Resolved == 4
Closed == 5
Low == 1
Medium == 2
High == 3
Critical == 4
Null == 0

Phases == {Open, InProgress, InHiatus, Resolved, Closed}

Priorities == {Low, Medium, High, Critical}

window_secs == 2

NoNote == "None"
Notes == {NoNote, "n"}

NoReason == "NoReason"
Reasons == {NoReason, "phase_change"}

TaskIds == {1}
SubtaskIds == {1}
ProjectIds == {1}

VARIABLES
    projects,          \* project id -> [phase, prio]
    tasks,             \* task id -> [phase, prio, project_id]
    subtasks,          \* subtask id -> [phase, prio, task_id]
    project_updates,   \* history rows of projects, oldest first
    task_updates,      \* history rows of tasks, oldest first
    subtask_updates,   \* history rows of subtasks, oldest first
    last,              \* the last call: its operation and what it returned
    repo_failures,     \* how many repository calls have reported failure so far
    calls,             \* caller -> the PhaseService.apply call it is in
    scripts,           \* the migrations directory: position -> [text, bad]
    effects,           \* position -> how many statements of the script the database holds
    schema_migrations, \* the ledger: rows [filename, sha256]
    run,               \* Database.run_migrations: how far the call has come
    table_info,        \* PRAGMA table_info of the history tables: [cols, required]
    updates,           \* history rows handed to _coalesce_updates, newest first
    shown              \* what the last pass over the rows returned

vars == <<projects, tasks, subtasks, project_updates, task_updates, subtask_updates, last,
          repo_failures, calls, scripts, effects, schema_migrations, run, table_info,
          updates, shown>>

tables == <<projects, tasks, subtasks, project_updates, task_updates, subtask_updates>>

migration == <<scripts, effects, schema_migrations, run, table_info>>

\* A history table as PRAGMA table_info shows it: its columns besides id and
\* the key of the entity, and those of them that are NOT NULL
Table(cols, required) == [cols |-> cols, required |-> required]

\* The history table the repository classes are written for
Rev068 ==
    Table({"updated_at_utc", "note", "reason", "old_phase_id", "new_phase_id",
           "old_priority_id", "new_priority_id"},
          {"updated_at_utc", "reason", "old_phase_id", "new_phase_id",
           "old_priority_id", "new_priority_id"})

\* The history table models/dao.py inserts into
DaoTable == Table({"changed_at_utc", "reason", "old_phase_id", "new_phase_id", "note"}, {})

\* The history tables the code is written against: the one models/dao.py
\* inserts into, the one the tests of the reason autofill insert into, one
\* that has the second names of SQLitePhaseRepository's candidates, and Rev068
Generations ==
    {DaoTable,
     Table({"old_phase_id", "new_phase_id", "note", "reason"}, {}),
     Table({"changed_at", "from_phase_id", "to_phase_id"}, {}),
     Rev068}

timeline == <<updates, shown>>

\* ------------------------------------------------------------- PhaseGraph

\* A graph with the edge Open -> Closed added
ALLOWED_OpenToClosed(p) ==
    CASE p = Open -> {InProgress, Closed}
      [] p = InProgress -> {InHiatus, Resolved}
      [] p = InHiatus -> {InProgress}
      [] p = Resolved -> {Closed}
      [] OTHER -> {}

\* A graph in which a closed entity can be reopened
ALLOWED_Reopen(p) ==
    CASE p = Open -> {InProgress}
      [] p = InProgress -> {InHiatus, Resolved}
      [] p = InHiatus -> {InProgress}
      [] p = Resolved -> {Closed}
      [] p = Closed -> {Open}
      [] OTHER -> {}

\* PhaseService._ALLOWED
ALLOWED(p) ==
    CASE p = Open -> {InProgress}
      [] p = InProgress -> {InHiatus, Resolved}
      [] p = InHiatus -> {InProgress}
      [] p = Resolved -> {Closed}
      [] p = Closed -> {}
      [] OTHER -> {}

\* PhaseService.can_change: the boolean of the returned pair
can_change(current, target) ==
    IF current = target THEN FALSE
    ELSE target \in ALLOWED(current)

\* ---------------------------------------------------------------- helpers

Row(eid, reason, old, new, oprio, nprio, note) ==
    [eid |-> eid, reason |-> reason, old |-> old, new |-> new,
     oprio |-> oprio, nprio |-> nprio, note |-> note]

\* The rows of a history table that belong to one entity, oldest first
RowsOf(table, eid) == SelectSeq(table, LAMBDA r : r.eid = eid)

\* The reason a history row gets when the insert gives none
ReasonAutofill(old, new, note) ==
    IF old # Null /\ new # Null /\ old # new THEN "phase_change"
    ELSE IF note # NoNote THEN "note"
    ELSE "update"

\* Rows written so far, over the three history tables
Written == Len(project_updates) + Len(task_updates) + Len(subtask_updates)

Result(op, code) == [op |-> op, code |-> code]

ProjectRow(phase, prio) == [phase |-> phase, prio |-> prio]
TaskRow(phase, prio, project_id) == [phase |-> phase, prio |-> prio, project_id |-> project_id]
SubtaskRow(phase, prio, task_id) == [phase |-> phase, prio |-> prio, task_id |-> task_id]

\* ------------------------------------------- PhaseRepository (the protocol)

Kinds == {"task", "subtask"}

\* Ids a caller may ask for: the rows that can exist and one that never does
RequestIds == {1, 2}

\* PhaseRepository.get_task_phase / get_subtask_phase (None is Null)
_get_current_phase(kind, id) ==
    IF kind = "task"
    THEN (IF id \in DOMAIN tasks THEN tasks[id].phase ELSE Null)
    ELSE (IF id \in DOMAIN subtasks THEN subtasks[id].phase ELSE Null)

\* The history table the service logs an entity kind to
UpdatesOf(kind) == IF kind = "task" THEN task_updates ELSE subtask_updates

\* PhaseRepository.set_task_phase / set_subtask_phase: the phase is stored when
\* the repository reports success, and left alone when it reports failure
_set_phase(kind, id, target, ok) ==
    IF kind = "task"
    THEN /\ tasks' = IF ok THEN [tasks EXCEPT ![id].phase = target] ELSE tasks
         /\ subtasks' = subtasks
    ELSE /\ subtasks' = IF ok THEN [subtasks EXCEPT ![id].phase = target] ELSE subtasks
         /\ tasks' = tasks

\* A log call that reads the phase to log as the old one after it was set
_log_update_Stale(kind, id, phase_from, phase_to, note, ok) ==
    LET row == Row(id, ReasonAutofill(phase_to, phase_to, note),
                   phase_to, phase_to, Null, Null, note) IN
    IF kind = "task"
    THEN /\ task_updates' = IF ok THEN Append(task_updates, row) ELSE task_updates
         /\ subtask_updates' = subtask_updates
    ELSE /\ subtask_updates' = IF ok THEN Append(subtask_updates, row) ELSE subtask_updates
         /\ task_updates' = task_updates

\* PhaseRepository.add_task_update / add_subtask_update: one row is appended
\* when the repository reports success, none when it reports failure
_log_update(kind, id, phase_from, phase_to, note, ok) ==
    LET row == Row(id, ReasonAutofill(phase_from, phase_to, note),
                   phase_from, phase_to, Null, Null, note) IN
    IF kind = "task"
    THEN /\ task_updates' = IF ok THEN Append(task_updates, row) ELSE task_updates
         /\ subtask_updates' = subtask_updates
    ELSE /\ subtask_updates' = IF ok THEN Append(subtask_updates, row) ELSE subtask_updates
         /\ task_updates' = task_updates

\* ------------------------------------------------------------ PhaseService

\* PhaseService.can_change called on its own
CanChange(current, target) ==
    /\ last' = Result("can_change", IF can_change(current, target) THEN "allowed" ELSE "not_allowed")
    /\ UNCHANGED <<tables, repo_failures, calls, migration, timeline>>

\* An early return placed after the set-phase call instead of before it
Reject_AfterSet(kind, id, target, code) ==
    /\ last' = Result("apply", code)
    /\ IF code = "invalid_transition"
       THEN _set_phase(kind, id, target, TRUE)
       ELSE UNCHANGED <<tasks, subtasks>>
    /\ UNCHANGED <<projects, project_updates, task_updates, subtask_updates, repo_failures,
                   calls, migration, timeline>>

\* PhaseService.apply, the early returns: a result and nothing else
Reject(kind, id, target, code) ==
    /\ last' = Result("apply", code)
    /\ UNCHANGED <<tables, repo_failures, calls, migration, timeline>>

\* PhaseService.apply, from the set-phase call on. ok_set and ok_log are what
\* the repository returns from its set-phase and add-update calls.
Persist(kind, id, actual_current, target, note) ==
    \E ok_set \in BOOLEAN :
        IF ~ok_set THEN
            /\ repo_failures < MaxRepoFailures
            /\ repo_failures' = repo_failures + 1
            /\ _set_phase(kind, id, target, FALSE)
            /\ last' = Result("apply", "repo_error")
            /\ UNCHANGED <<projects, project_updates, task_updates, subtask_updates, calls, migration, timeline>>
        ELSE \E ok_log \in BOOLEAN :
            /\ IF ok_log THEN Written + 1 <= MaxUpdates ELSE repo_failures < MaxRepoFailures
            /\ repo_failures' = IF ok_log THEN repo_failures ELSE repo_failures + 1
            /\ _set_phase(kind, id, target, TRUE)
            /\ _log_update(kind, id, actual_current, target, note, ok_log)
            /\ last' = Result("apply", IF ok_log THEN "applied" ELSE "repo_error")
            /\ UNCHANGED <<projects, project_updates, calls, migration, timeline>>

\* PhaseService.apply
apply(kind, id, target, note) ==
    LET actual_current == _get_current_phase(kind, id) IN
    IF actual_current = Null THEN Reject(kind, id, target, "entity_not_found")
    ELSE IF target = actual_current THEN Reject(kind, id, target, "no_change")
    ELSE IF ~can_change(actual_current, target) THEN Reject(kind, id, target, "invalid_transition")
    ELSE Persist(kind, id, actual_current, target, note)

Callers == {"A", "B"}

\* A caller that is in no call
IdleCall ==
    [pc |-> "idle", kind |-> "task", id |-> Null, target |-> Null, note |-> NoNote,
     seen |-> Null, before |-> Null]

\* Database.run_migrations is in no call; repeat says that the call that ended
\* last was made right after a call of the same function
IdleRun == [pc |-> "idle", todo |-> <<>>, done |-> <<>>, warnings |-> {}, repeat |-> FALSE]

\* No migrations directory and an empty database
NoMigration ==
    /\ scripts = <<>>
    /\ effects = <<>>
    /\ schema_migrations = {}
    /\ run = IdleRun
    /\ table_info = Rev068

\* No timeline is loaded
NoTimeline ==
    /\ updates = <<>>
    /\ shown = <<>>

\* The repository the service is built on holds its rows before the first
\* call: a task and a subtask, one of them in any phase and the other closed
Init ==
    /\ projects = [i \in {1} |-> ProjectRow(Open, Medium)]
    /\ \E p \in Phases, live \in Kinds :
          /\ tasks = [i \in {1} |-> TaskRow(IF live = "task" THEN p ELSE Closed, Medium, 1)]
          /\ subtasks = [i \in {1} |-> SubtaskRow(IF live = "subtask" THEN p ELSE Closed, Medium, 1)]
    /\ project_updates = <<>>
    /\ task_updates = <<>>
    /\ subtask_updates = <<>>
    /\ last = Result("init", "none")
    /\ repo_failures = 0
    /\ calls = [c \in Callers |-> IdleCall]
    /\ NoMigration
    /\ NoTimeline

Next ==
    \/ \E c \in Phases, t \in Phases : CanChange(c, t)
    \/ \E k \in Kinds, i \in RequestIds, t \in Phases, n \in Notes : apply(k, i, t, n)

Spec == Init /\ [][Next]_vars

\* ------------------------------------------------- properties of the service

\* The phase-changing rows of a history, as <<old, new>> pairs, oldest first
RECURSIVE Changes(_)
Changes(rows) ==
    IF rows = <<>> THEN <<>>
    ELSE IF rows[1].old # rows[1].new
         THEN <<(<<rows[1].old, rows[1].new>>)>> \o Changes(Tail(rows))
         ELSE Changes(Tail(rows))

\* C1: every PhaseService.apply call that returns 'applied' stores the requested
\* target as the entity's phase and appends exactly one history row for that
\* entity, with phase_from the phase stored before the call, phase_to the
\* target, and phase_from different from phase_to.
C1_AppliedWritesOneRecord ==
    [][last'.code = "applied" =>
       \A k \in Kinds, i \in RequestIds, t \in Phases, n \in Notes :
        apply(k, i, t, n) =>
            LET before == _get_current_phase(k, i)
                rows == RowsOf(UpdatesOf(k), i)
                rowsAfter == (RowsOf(UpdatesOf(k), i))'
            IN  /\ (_get_current_phase(k, i))' = t
                /\ Len((UpdatesOf(k))') = Len(UpdatesOf(k)) + 1
                /\ Len(rowsAfter) = Len(rows) + 1
                /\ SubSeq(rowsAfter, 1, Len(rows)) = rows
                /\ rowsAfter[Len(rowsAfter)].old = before
                /\ rowsAfter[Len(rowsAfter)].new = t
                /\ before # t]_vars

\* A task moved from Open to In Progress by an applied call, with its one row
C1_Witness ==
    /\ last = Result("apply", "applied")
    /\ tasks[1].phase = InProgress
    /\ Len(task_updates) = 1
    /\ task_updates[1].eid = 1
    /\ task_updates[1].old = Open
    /\ task_updates[1].new = InProgress
    /\ task_updates[1].note = "n"

\* C2: after any PhaseService.apply call returns, the entity's stored phase has
\* changed if and only if a matching history row (old = the phase before, new =
\* the phase stored) was appended.
C2_PhaseAndAuditTogether ==
    [][\A k \in Kinds, i \in RequestIds, t \in Phases, n \in Notes :
        (last'.op = "apply" /\ apply(k, i, t, n)) =>
            LET before == _get_current_phase(k, i)
                after == (_get_current_phase(k, i))'
                rows == RowsOf(UpdatesOf(k), i)
                rowsAfter == (RowsOf(UpdatesOf(k), i))'
            IN  (after # before) <=>
                    /\ Len(rowsAfter) = Len(rows) + 1
                    /\ rowsAfter[Len(rowsAfter)].old = before
                    /\ rowsAfter[Len(rowsAfter)].new = after]_vars

\* C3: a PhaseService.apply call that returns entity_not_found, no_change or
\* invalid_transition leaves every entity's phase and every history table as
\* they were before the call.
C3_RejectionChangesNothing ==
    [][(/\ last'.code \in {"entity_not_found", "no_change", "invalid_transition"}
        /\ ~UNCHANGED tables)
       => \A k \in Kinds, i \in RequestIds, t \in Phases, n \in Notes :
              ~apply(k, i, t, n)]_vars

\* A rejected transition after an applied one: the earlier row is still there
C3_Witness ==
    /\ last = Result("apply", "invalid_transition")
    /\ Written >= 1
    /\ tasks[1].phase = InProgress
    /\ Changes(RowsOf(task_updates, 1)) = <<(<<Open, InProgress>>)>>

\* The table of legal transitions
EdgeTable ==
    {<<Open, InProgress>>, <<InProgress, InHiatus>>, <<InProgress, Resolved>>,
     <<InHiatus, InProgress>>, <<Resolved, Closed>>}

Scenario ==
    << <<Open, InProgress, "applied", InProgress>>,
       <<InProgress, Open, "invalid_transition", InProgress>>,
       <<InProgress, Resolved, "applied", Resolved>>,
       <<Resolved, Closed, "applied", Closed>>,
       <<Closed, InProgress, "invalid_transition", Closed>> >>

\* C5: Closed is terminal: a PhaseService.apply call on an entity whose phase
\* is Closed never changes its phase nor its history, and returns
\* invalid_transition, or no_change when the target is Closed. Each call of the
\* scenario Open -> In Progress -> (Open) -> Resolved -> Closed -> (In Progress),
\* made on an entity in the phase the scenario has reached and with the
\* repository reporting success, has the result and the phase after it that
\* the scenario lists.
C5_ClosedIsTerminal ==
    [][last'.op = "apply" =>
        \A k \in Kinds, i \in RequestIds :
            /\ _get_current_phase(k, i) = Closed =>
                  \A t \in Phases, n \in Notes :
                      ~(/\ last'.code = IF t = Closed THEN "no_change"
                                        ELSE "invalid_transition"
                        /\ (_get_current_phase(k, i))' = Closed
                        /\ (RowsOf(UpdatesOf(k), i))' = RowsOf(UpdatesOf(k), i))
                      => ~apply(k, i, t, n)
            /\ last'.code # "repo_error" =>
                  \A j \in 1..Len(Scenario) :
                      _get_current_phase(k, i) = Scenario[j][1] =>
                          \A n \in Notes :
                              apply(k, i, Scenario[j][2], n)
                              => /\ last'.code = Scenario[j][3]
                                 /\ (_get_current_phase(k, i))' = Scenario[j][4]]_vars

\* The end of the scenario: the task went Open, In Progress, Resolved, Closed
\* and the last call, out of Closed, was refused
C5_Witness ==
    /\ last = Result("apply", "invalid_transition")
    /\ tasks[1].phase = Closed
    /\ Changes(RowsOf(task_updates, 1)) =
          << <<Open, InProgress>>, <<InProgress, Resolved>>, <<Resolved, Closed>> >>

\* C7: a PhaseService.apply call whose target is the current phase returns
\* no_change and, when a note was supplied, appends exactly one note-only row
\* for the entity (old = new = the current phase, carrying the note); without
\* a note it appends nothing.
C7_NoteOnlyRecordOnNoChange ==
    [][\A k \in Kinds, i \in RequestIds, t \in Phases, n \in Notes :
        (last'.op = "apply" /\ _get_current_phase(k, i) = t /\ apply(k, i, t, n)) =>
            LET rows == RowsOf(UpdatesOf(k), i)
                rowsAfter == (RowsOf(UpdatesOf(k), i))'
            IN  /\ last'.code = "no_change"
                /\ IF n = NoNote THEN rowsAfter = rows
                   ELSE /\ Len(rowsAfter) = Len(rows) + 1
                        /\ rowsAfter[Len(rowsAfter)].old = t
                        /\ rowsAfter[Len(rowsAfter)].new = t
                        /\ rowsAfter[Len(rowsAfter)].note = n]_vars

\* ------------------------------------ the SQLite repositories behind the views

\* The rows of the phase_transitions table
phase_transitions ==
    {<<Open, InProgress>>, <<InProgress, InHiatus>>, <<InProgress, Resolved>>,
     <<InHiatus, InProgress>>, <<Resolved, Closed>>}

\* trg_tasks_phase_validate / trg_subtasks_phase_validate: the messages an
\* UPDATE of phase_id can be refused with; none when the update goes through.
\* Leaving a terminal phase is refused with either of two messages.
TriggerMessages(old, new) ==
    IF old = new THEN {"no_change"}
    ELSE IF old = Closed
         THEN {"invalid_transition", "invalid_transition: terminal phase cannot change"}
    ELSE IF <<old, new>> \notin phase_transitions THEN {"invalid_transition"}
    ELSE {}

\* cursor.lastrowid of an INSERT: the first id not in use
NextId(rows, ids) == CHOOSE i \in ids \ DOMAIN rows : \A j \in ids \ DOMAIN rows : i <= j

\* f"[subtask #{id}] {text}", the note of a row mirrored to the parent task
SubtaskTag(id, text) ==
    CASE text = "created" -> "[subtask #1] created"
      [] text = "no-op" -> "[subtask #1] no-op"
      [] text = "phase_change" -> "[subtask #1] phase_change"
      [] text = "" -> "[subtask #1]"
      [] OTHER -> "[subtask #1] n"

\* SQLiteTaskRepository.create_task, as TasksViewModel.create_task calls it
create_task(project_id, phase_id, note_on_create) ==
    /\ TaskIds \ DOMAIN tasks # {}
    /\ Written + 1 <= MaxRepoUpdates
    /\ LET task_id == NextId(tasks, TaskIds) IN
          /\ tasks' = [i \in DOMAIN tasks \cup {task_id} |->
                          IF i = task_id THEN TaskRow(phase_id, Medium, project_id)
                          ELSE tasks[i]]
          /\ task_updates' = Append(task_updates,
                 Row(task_id, "create", Open, phase_id, Medium, Medium, note_on_create))
    /\ last' = Result("create_task", "created")
    /\ UNCHANGED <<projects, subtasks, project_updates, subtask_updates, repo_failures, calls, migration, timeline>>

\* SQLiteSubtaskRepository.create_subtask
create_subtask(task_id, phase_id, note_on_create) ==
    /\ SubtaskIds \ DOMAIN subtasks # {}
    /\ Written + 2 <= MaxRepoUpdates
    /\ LET sub_id == NextId(subtasks, SubtaskIds) IN
          /\ subtasks' = [i \in DOMAIN subtasks \cup {sub_id} |->
                             IF i = sub_id THEN SubtaskRow(phase_id, Medium, task_id)
                             ELSE subtasks[i]]
          /\ subtask_updates' = Append(subtask_updates,
                 Row(sub_id, "create", Open, phase_id, Medium, Medium, note_on_create))
          /\ task_updates' = Append(task_updates,
                 Row(task_id, "subtask_create", Open, phase_id, Medium, Medium,
                     SubtaskTag(sub_id, IF note_on_create = NoNote THEN "created"
                                        ELSE note_on_create)))
    /\ last' = Result("create_subtask", "created")
    /\ UNCHANGED <<projects, tasks, project_updates, repo_failures, calls, migration, timeline>>

\* TasksViewModel.change_task_phase over SQLiteTaskRepository.change_task_phase:
\* the view model passes reason or "phase_change" and turns an exception of the
\* repository (the trigger refusing the UPDATE) into False
change_task_phase(task_id, new_phase_id, reason, note) ==
    LET vm_reason == IF reason = NoReason THEN "phase_change" ELSE reason IN
    /\ UNCHANGED <<projects, subtasks, project_updates, subtask_updates, repo_failures, calls, migration, timeline>>
    /\ IF task_id \notin DOMAIN tasks
       THEN /\ last' = Result("change_task_phase", "False")
            /\ UNCHANGED <<tasks, task_updates>>
       ELSE LET old_phase_id == tasks[task_id].phase
                priority_id == tasks[task_id].prio IN
            IF old_phase_id = new_phase_id
            THEN /\ Written + 1 <= MaxRepoUpdates
                 /\ task_updates' = Append(task_updates,
                        Row(task_id, vm_reason, old_phase_id, new_phase_id,
                            priority_id, priority_id, note))
                 /\ last' = Result("change_task_phase", "True")
                 /\ UNCHANGED tasks
            ELSE IF TriggerMessages(old_phase_id, new_phase_id) # {}
            THEN /\ last' = Result("change_task_phase", "False")
                 /\ UNCHANGED <<tasks, task_updates>>
            ELSE /\ Written + 1 <= MaxRepoUpdates
                 /\ tasks' = [tasks EXCEPT ![task_id].phase = new_phase_id]
                 /\ task_updates' = Append(task_updates,
                        Row(task_id, vm_reason, old_phase_id, new_phase_id,
                            priority_id, priority_id, note))
                 /\ last' = Result("change_task_phase", "True")

\* SQLiteSubtaskRepository.change_subtask_phase, called by
\* SubtasksViewModel.change_subtask_phase (which passes the reason through and
\* catches nothing) and by the subtasks tab
change_subtask_phase(subtask_id, new_phase_id, reason, note) ==
    /\ UNCHANGED <<projects, tasks, project_updates, repo_failures, calls, migration, timeline>>
    /\ IF subtask_id \notin DOMAIN subtasks
       THEN /\ last' = Result("change_subtask_phase", "False")
            /\ UNCHANGED <<subtasks, subtask_updates, task_updates>>
       ELSE LET task_id == subtasks[subtask_id].task_id
                old_phase_id == subtasks[subtask_id].phase
                priority_id == subtasks[subtask_id].prio IN
            IF old_phase_id = new_phase_id
            THEN IF note # NoNote \/ reason # NoReason
                 THEN /\ Written + 2 <= MaxRepoUpdates
                      /\ subtask_updates' = Append(subtask_updates,
                             Row(subtask_id, IF reason = NoReason THEN "update" ELSE reason,
                                 old_phase_id, new_phase_id, priority_id, priority_id, note))
                      /\ task_updates' = Append(task_updates,
                             Row(task_id, "subtask_update", old_phase_id, new_phase_id,
                                 priority_id, priority_id,
                                 SubtaskTag(subtask_id,
                                     IF note # NoNote THEN note
                                     ELSE IF reason # NoReason THEN reason ELSE "no-op")))
                      /\ last' = Result("change_subtask_phase", "True")
                      /\ UNCHANGED subtasks
                 ELSE /\ last' = Result("change_subtask_phase", "True")
                      /\ UNCHANGED <<subtasks, subtask_updates, task_updates>>
            ELSE IF TriggerMessages(old_phase_id, new_phase_id) # {}
            THEN /\ last' = Result("change_subtask_phase", "raised")
                 /\ UNCHANGED <<subtasks, subtask_updates, task_updates>>
            ELSE /\ Written + 2 <= MaxRepoUpdates
                 /\ subtasks' = [subtasks EXCEPT ![subtask_id].phase = new_phase_id]
                 /\ subtask_updates' = Append(subtask_updates,
                        Row(subtask_id, IF reason = NoReason THEN "phase_change" ELSE reason,
                            old_phase_id, new_phase_id, priority_id, priority_id, note))
                 /\ task_updates' = Append(task_updates,
                        Row(task_id, "subtask_phase_change", old_phase_id, new_phase_id,
                            priority_id, priority_id,
                            SubtaskTag(subtask_id, IF note = NoNote THEN "" ELSE note)))
                 /\ last' = Result("change_subtask_phase", "True")

\* SQLiteProjectRepository.set_project_phase with its default reason
set_project_phase(project_id, new_phase_id, note) ==
    LET reason == "phase_change" IN
    /\ UNCHANGED <<tasks, subtasks, task_updates, subtask_updates, repo_failures, calls, migration, timeline>>
    /\ IF project_id \notin DOMAIN projects
       THEN /\ last' = Result("set_project_phase", "False")
            /\ UNCHANGED <<projects, project_updates>>
       ELSE LET old_phase_id == projects[project_id].phase
                priority_id == projects[project_id].prio IN
            IF old_phase_id = new_phase_id
            THEN /\ Written + 1 <= MaxRepoUpdates
                 /\ project_updates' = Append(project_updates,
                        Row(project_id, reason, old_phase_id, new_phase_id,
                            priority_id, priority_id, note))
                 /\ last' = Result("set_project_phase", "True")
                 /\ UNCHANGED projects
            ELSE IF <<old_phase_id, new_phase_id>> \notin phase_transitions
            THEN /\ last' = Result("set_project_phase", "False")
                 /\ UNCHANGED <<projects, project_updates>>
            ELSE /\ Written + 1 <= MaxRepoUpdates
                 /\ projects' = [projects EXCEPT ![project_id].phase = new_phase_id]
                 /\ project_updates' = Append(project_updates,
                        Row(project_id, reason, old_phase_id, new_phase_id,
                            priority_id, priority_id, note))
                 /\ last' = Result("set_project_phase", "True")

\* A migrated database with one project (SQLiteProjectsRepository.insert_project)
\* and no task yet
InitRepo ==
    /\ projects = [i \in ProjectIds |-> ProjectRow(Open, Medium)]
    /\ tasks = [i \in {} |-> TaskRow(Open, Medium, 1)]
    /\ subtasks = [i \in {} |-> SubtaskRow(Open, Medium, 1)]
    /\ project_updates = <<>>
    /\ task_updates = <<>>
    /\ subtask_updates = <<>>
    /\ last = Result("init", "none")
    /\ repo_failures = 0
    /\ calls = [c \in Callers |-> IdleCall]
    /\ NoMigration
    /\ NoTimeline

NextRepo ==
    \/ \E pr \in ProjectIds, p \in Phases, n \in Notes : create_task(pr, p, n)
    \/ \E t \in DOMAIN tasks, p \in Phases, n \in Notes : create_subtask(t, p, n)
    \/ \E i \in RequestIds, p \in Phases, r \in Reasons, n \in Notes :
          change_task_phase(i, p, r, n)
    \/ \E i \in RequestIds, p \in Phases, r \in Reasons, n \in Notes :
          change_subtask_phase(i, p, r, n)
    \/ \E i \in RequestIds, p \in Phases, n \in Notes : set_project_phase(i, p, n)

SpecRepo == InitRepo /\ [][NextRepo]_vars

\* Rows a repository writes to the parent task's history on behalf of a subtask
MirrorReasons ==
    {"subtask_create", "subtask_update", "subtask_phase_change", "subtask_delete",
     "subtask_priority_change"}

\* The rows of a history table that are about the entity itself, oldest first
OwnRows(table, eid) ==
    SelectSeq(table, LAMBDA r : r.eid = eid /\ r.reason \notin MirrorReasons)

\* A history is a chain of legal transitions from Open that ends at the phase
LegalChain(rows, phase) ==
    LET ch == Changes(rows) IN
    /\ \A j \in 1..Len(rows) : rows[j].reason = "create" => rows[j].new = Open
    /\ \A j \in 1..Len(ch) :
          /\ ch[j] \in EdgeTable
          /\ ch[j][1] = IF j = 1 THEN Open ELSE ch[j - 1][2]
    /\ phase = IF ch = <<>> THEN Open ELSE ch[Len(ch)][2]

\* The rows an action appended to a history table
Appended(before, after) == SubSeq(after, Len(before) + 1, Len(after))

\* C6: a request whose target is the entity's current phase, made through
\* TasksViewModel.change_task_phase or through
\* SQLiteProjectRepository.set_project_phase with its default reason, leaves
\* the stored phase alone and appends no history row with reason phase_change.
C6_SamePhaseWritesNoPhaseChange ==
    [][\A i \in RequestIds, p \in Phases, r \in Reasons, n \in Notes :
        /\ (/\ last'.op = "change_task_phase"
            /\ i \in DOMAIN tasks
            /\ tasks[i].phase = p
            /\ change_task_phase(i, p, r, n))
           => /\ tasks' = tasks
              /\ \A j \in 1..Len(Appended(task_updates, task_updates')) :
                    Appended(task_updates, task_updates')[j].reason # "phase_change"
        /\ (/\ last'.op = "set_project_phase"
            /\ i \in DOMAIN projects
            /\ projects[i].phase = p
            /\ set_project_phase(i, p, n))
           => /\ projects' = projects
              /\ \A j \in 1..Len(Appended(project_updates, project_updates')) :
                    Appended(project_updates, project_updates')[j].reason # "phase_change"]_vars

\* C8: in every reachable state each project, task and subtask was created
\* with phase Open, its phase-changing rows are edges of the table of legal
\* transitions, each starting where the one before ended and the first one at
\* Open, and the last of them ends at the stored phase.
C8_PhaseIsEndOfLegalChain ==
    /\ \A i \in DOMAIN projects : LegalChain(OwnRows(project_updates, i), projects[i].phase)
    /\ \A i \in DOMAIN tasks : LegalChain(OwnRows(task_updates, i), tasks[i].phase)
    /\ \A i \in DOMAIN subtasks : LegalChain(OwnRows(subtask_updates, i), subtasks[i].phase)

\* ---------------------------------------------------- SQLitePhaseRepository

\* Candidate column names, the first found wins
_TS_CANDIDATES ==
    <<"changed_at_utc", "changed_at", "created_at_utc", "created_at", "ts_utc", "ts">>

_OLD_CANDIDATES == <<"old_phase_id", "from_phase_id">>

_NEW_CANDIDATES == <<"new_phase_id", "to_phase_id">>

\* _pick_col returns None
NoColumn == "None"

\* SQLitePhaseRepository._pick_col
RECURSIVE _pick_col(_, _)
_pick_col(cols, candidates) ==
    IF candidates = <<>> THEN NoColumn
    ELSE IF Head(candidates) \in cols THEN Head(candidates)
    ELSE _pick_col(cols, Tail(candidates))

\* The columns of the row set_task_phase / set_subtask_phase build, the key
\* of the entity left out
history_data(cols) ==
    ({_pick_col(cols, _TS_CANDIDATES), _pick_col(cols, _OLD_CANDIDATES),
      _pick_col(cols, _NEW_CANDIDATES)} \ {NoColumn}) \cup ({"note"} \cap cols)

\* SQLitePhaseRepository._insert_dynamic: what the INSERT raises; a NOT NULL
\* column the row does not give fails it
_insert_dynamic(table, data) ==
    IF table.required \subseteq data THEN "none" ELSE "IntegrityError"

\* The history row set_task_phase / set_subtask_phase insert: the old and the
\* new phase where the table has a column for them, a NULL note and no reason,
\* which the table fills in
StoreRow(id, old_pid, new_pid) ==
    LET old == IF _pick_col(table_info.cols, _OLD_CANDIDATES) # NoColumn THEN old_pid ELSE Null
        new == IF _pick_col(table_info.cols, _NEW_CANDIDATES) # NoColumn THEN new_pid ELSE Null IN
    Row(id, ReasonAutofill(old, new, NoNote), old, new, Null, Null, NoNote)

\* SQLitePhaseRepository.set_task_phase: an IntegrityError of the UPDATE or of
\* the INSERT is rolled back and its message returned as the reason
set_task_phase(task_id, phase_id) ==
    /\ UNCHANGED <<projects, subtasks, project_updates, subtask_updates, repo_failures, calls, migration, timeline>>
    /\ IF task_id \notin DOMAIN tasks
       THEN /\ last' = Result("set_task_phase", "not_found")
            /\ UNCHANGED <<tasks, task_updates>>
       ELSE LET old_pid == tasks[task_id].phase IN
            IF old_pid = phase_id
            THEN /\ last' = Result("set_task_phase", "no_change")
                 /\ UNCHANGED <<tasks, task_updates>>
            ELSE IF TriggerMessages(old_pid, phase_id) # {}
            THEN /\ \E msg \in TriggerMessages(old_pid, phase_id) :
                        last' = Result("set_task_phase", msg)
                 /\ UNCHANGED <<tasks, task_updates>>
            ELSE IF _insert_dynamic(table_info, history_data(table_info.cols)) # "none"
            THEN /\ last' = Result("set_task_phase", "NOT NULL constraint failed")
                 /\ UNCHANGED <<tasks, task_updates>>
            ELSE /\ Written + 1 <= MaxUpdates
                 /\ tasks' = [tasks EXCEPT ![task_id].phase = phase_id]
                 /\ task_updates' = Append(task_updates, StoreRow(task_id, old_pid, phase_id))
                 /\ last' = Result("set_task_phase", "ok")

\* SQLitePhaseRepository.set_subtask_phase: an IntegrityError of the UPDATE or
\* of the INSERT is rolled back and reported as invalid_transition
set_subtask_phase(subtask_id, phase_id) ==
    /\ UNCHANGED <<projects, tasks, project_updates, task_updates, repo_failures, calls, migration, timeline>>
    /\ IF subtask_id \notin DOMAIN subtasks
       THEN /\ last' = Result("set_subtask_phase", "not_found")
            /\ UNCHANGED <<subtasks, subtask_updates>>
       ELSE LET old_pid == subtasks[subtask_id].phase IN
            IF old_pid = phase_id
            THEN /\ last' = Result("set_subtask_phase", "no_change")
                 /\ UNCHANGED <<subtasks, subtask_updates>>
            ELSE IF TriggerMessages(old_pid, phase_id) # {}
            THEN /\ last' = Result("set_subtask_phase", "invalid_transition")
                 /\ UNCHANGED <<subtasks, subtask_updates>>
            ELSE IF _insert_dynamic(table_info, history_data(table_info.cols)) # "none"
            THEN /\ last' = Result("set_subtask_phase", "invalid_transition")
                 /\ UNCHANGED <<subtasks, subtask_updates>>
            ELSE /\ Written + 1 <= MaxUpdates
                 /\ subtasks' = [subtasks EXCEPT ![subtask_id].phase = phase_id]
                 /\ subtask_updates' = Append(subtask_updates,
                                              StoreRow(subtask_id, old_pid, phase_id))
                 /\ last' = Result("set_subtask_phase", "ok")

\* A database of any generation, seeded with a task and a subtask, each in
\* any phase
InitStore ==
    /\ projects = [i \in ProjectIds |-> ProjectRow(Open, Medium)]
    /\ \E p \in Phases : tasks = [i \in TaskIds |-> TaskRow(p, Medium, 1)]
    /\ \E p \in Phases : subtasks = [i \in SubtaskIds |-> SubtaskRow(p, Medium, 1)]
    /\ project_updates = <<>>
    /\ task_updates = <<>>
    /\ subtask_updates = <<>>
    /\ last = Result("init", "none")
    /\ repo_failures = 0
    /\ calls = [c \in Callers |-> IdleCall]
    /\ scripts = <<>>
    /\ effects = <<>>
    /\ schema_migrations = {}
    /\ run = IdleRun
    /\ \E t \in Generations : table_info = t
    /\ NoTimeline

NextStore ==
    \/ \E i \in RequestIds, p \in Phases : set_task_phase(i, p)
    \/ \E i \in RequestIds, p \in Phases : set_subtask_phase(i, p)

SpecStore == InitStore /\ [][NextStore]_vars

\* C10: when the trigger refuses the UPDATE of a phase, set_task_phase and
\* set_subtask_phase leave every phase and every history as they were and
\* return the reason 'invalid_transition', for a task as for a subtask.
C10_BackstopRejectionIsInvalidTransition ==
    [][\A i \in RequestIds, p \in Phases :
        /\ (/\ last'.op = "set_task_phase"
            /\ i \in DOMAIN tasks
            /\ tasks[i].phase # p
            /\ TriggerMessages(tasks[i].phase, p) # {}
            /\ set_task_phase(i, p))
           => (UNCHANGED tables /\ last'.code = "invalid_transition")
        /\ (/\ last'.op = "set_subtask_phase"
            /\ i \in DOMAIN subtasks
            /\ subtasks[i].phase # p
            /\ TriggerMessages(subtasks[i].phase, p) # {}
            /\ set_subtask_phase(i, p))
           => (UNCHANGED tables /\ last'.code = "invalid_transition")]_vars

\* ------------------------------------- PhaseService.apply, calls interleaved

\* PhaseService.apply up to its first write: the caller reads the current
\* phase and returns early, or goes on to set the phase
apply_read(c, kind, id, target, note) ==
    LET actual_current == _get_current_phase(kind, id)
        code == IF actual_current = Null THEN "entity_not_found"
                ELSE IF target = actual_current THEN "no_change"
                ELSE IF ~can_change(actual_current, target) THEN "invalid_transition"
                ELSE "none"
        call == [pc |-> IF code = "none" THEN "checked" ELSE "done",
                 kind |-> kind, id |-> id, target |-> target, note |-> note,
                 seen |-> actual_current, before |-> Null] IN
    /\ calls[c].pc = "idle"
    /\ calls' = [calls EXCEPT ![c] = call]
    /\ UNCHANGED <<migration, timeline>>
    /\ last' = IF code = "none" THEN last ELSE Result("apply", code)
    /\ UNCHANGED <<tables, repo_failures>>

\* PhaseService.apply, the set-phase call of a caller that passed the checks
apply_set(c) ==
    LET call == calls[c] IN
    /\ call.pc = "checked"
    /\ \E ok_set \in BOOLEAN :
          /\ ~ok_set => repo_failures < MaxRepoFailures
          /\ repo_failures' = IF ok_set THEN repo_failures ELSE repo_failures + 1
          /\ _set_phase(call.kind, call.id, call.target, ok_set)
          /\ calls' = [calls EXCEPT ![c].pc = IF ok_set THEN "stored" ELSE "done",
                                    ![c].before = _get_current_phase(call.kind, call.id)]
          /\ last' = IF ok_set THEN last ELSE Result("apply", "repo_error")
    /\ UNCHANGED <<projects, project_updates, task_updates, subtask_updates, migration, timeline>>

\* PhaseService.apply, the add-update call and the return
apply_log(c) ==
    LET call == calls[c] IN
    /\ call.pc = "stored"
    /\ \E ok_log \in BOOLEAN :
          /\ IF ok_log THEN Written + 1 <= MaxUpdates ELSE repo_failures < MaxRepoFailures
          /\ repo_failures' = IF ok_log THEN repo_failures ELSE repo_failures + 1
          /\ _log_update(call.kind, call.id, call.seen, call.target, call.note, ok_log)
          /\ last' = Result("apply", IF ok_log THEN "applied" ELSE "repo_error")
    /\ calls' = [calls EXCEPT ![c].pc = "done"]
    /\ UNCHANGED <<migration, timeline>>
    /\ UNCHANGED <<projects, tasks, subtasks, project_updates>>

NextConc ==
    \/ \E c \in Callers, k \in Kinds, i \in RequestIds, t \in Phases, n \in Notes :
          apply_read(c, k, i, t, n)
    \/ \E c \in Callers : apply_set(c)
    \/ \E c \in Callers : apply_log(c)

SpecConc == Init /\ [][NextConc]_vars

\* C9: when two PhaseService.apply calls interleave, every change of a stored
\* phase is an edge of the table of legal transitions out of the phase stored
\* just before the write, and the row a call appends has as its old phase the
\* phase that was stored just before that call's write; so no entity leaves
\* Closed.
C9_InterleavedWritesFollowStoredPhase ==
    [][/\ \A k \in Kinds, i \in RequestIds :
             (/\ _get_current_phase(k, i) # Null
              /\ (_get_current_phase(k, i))' # _get_current_phase(k, i))
             => <<_get_current_phase(k, i), (_get_current_phase(k, i))'>> \in EdgeTable
       /\ \A c \in Callers :
             (/\ calls[c].pc = "stored"
              /\ calls'[c].pc = "done"
              /\ Len((UpdatesOf(calls[c].kind))') = Len(UpdatesOf(calls[c].kind)) + 1)
             => (UpdatesOf(calls[c].kind))'[Len((UpdatesOf(calls[c].kind))')].old
                   = calls[c].before]_vars

\* ------------------------------------------------------------ models/dao.py

\* The history row the dao functions insert: reason, old and new phase and a
\* note; the priority columns are not given
DaoRow(id, reason, old_phase_id, new_phase_id, note) ==
    Row(id, reason, old_phase_id, new_phase_id, Null, Null, note)

\* phase_rules.is_allowed_phase_change
is_allowed_phase_change(old_phase_id, new_phase_id) ==
    <<old_phase_id, new_phase_id>> \in phase_transitions

\* dao.change_project_phase: a missing project and a transition that is not
\* allowed end the call with a ValueError
change_project_phase(project_id, new_phase_id, note) ==
    /\ UNCHANGED <<tasks, subtasks, task_updates, subtask_updates, repo_failures, calls, migration, timeline>>
    /\ IF project_id \notin DOMAIN projects
       THEN /\ last' = Result("dao.change_project_phase", "ValueError")
            /\ UNCHANGED <<projects, project_updates>>
       ELSE LET old_phase_id == projects[project_id].phase IN
            IF old_phase_id = new_phase_id
            THEN /\ Written + 1 <= MaxUpdates
                 /\ project_updates' = Append(project_updates,
                        DaoRow(project_id, "Note", old_phase_id, new_phase_id,
                               IF note = NoNote THEN "No phase change" ELSE note))
                 /\ last' = Result("dao.change_project_phase", "returned")
                 /\ UNCHANGED projects
            ELSE IF ~is_allowed_phase_change(old_phase_id, new_phase_id)
            THEN /\ last' = Result("dao.change_project_phase", "ValueError")
                 /\ UNCHANGED <<projects, project_updates>>
            ELSE /\ Written + 1 <= MaxUpdates
                 /\ projects' = [projects EXCEPT ![project_id].phase = new_phase_id]
                 /\ project_updates' = Append(project_updates,
                        DaoRow(project_id, "Phase Change", old_phase_id, new_phase_id, note))
                 /\ last' = Result("dao.change_project_phase", "returned")

\* dao.change_task_phase
dao_change_task_phase(task_id, new_phase_id, note) ==
    /\ UNCHANGED <<projects, subtasks, project_updates, subtask_updates, repo_failures, calls, migration, timeline>>
    /\ IF task_id \notin DOMAIN tasks
       THEN /\ last' = Result("dao.change_task_phase", "ValueError")
            /\ UNCHANGED <<tasks, task_updates>>
       ELSE LET old_phase_id == tasks[task_id].phase IN
            IF old_phase_id = new_phase_id
            THEN /\ Written + 1 <= MaxUpdates
                 /\ task_updates' = Append(task_updates,
                        DaoRow(task_id, "Note", old_phase_id, new_phase_id,
                               IF note = NoNote THEN "No phase change" ELSE note))
                 /\ last' = Result("dao.change_task_phase", "returned")
                 /\ UNCHANGED tasks
            ELSE IF ~is_allowed_phase_change(old_phase_id, new_phase_id)
            THEN /\ last' = Result("dao.change_task_phase", "ValueError")
                 /\ UNCHANGED <<tasks, task_updates>>
            ELSE IF TriggerMessages(old_phase_id, new_phase_id) # {}
            THEN /\ last' = Result("dao.change_task_phase", "IntegrityError")
                 /\ UNCHANGED <<tasks, task_updates>>
            ELSE /\ Written + 1 <= MaxUpdates
                 /\ tasks' = [tasks EXCEPT ![task_id].phase = new_phase_id]
                 /\ task_updates' = Append(task_updates,
                        DaoRow(task_id, "Phase Change", old_phase_id, new_phase_id, note))
                 /\ last' = Result("dao.change_task_phase", "returned")

\* dao.change_subtask_phase
dao_change_subtask_phase(subtask_id, new_phase_id, note) ==
    /\ UNCHANGED <<projects, tasks, project_updates, task_updates, repo_failures, calls, migration, timeline>>
    /\ IF subtask_id \notin DOMAIN subtasks
       THEN /\ last' = Result("dao.change_subtask_phase", "ValueError")
            /\ UNCHANGED <<subtasks, subtask_updates>>
       ELSE LET old_phase_id == subtasks[subtask_id].phase IN
            IF old_phase_id = new_phase_id
            THEN /\ Written + 1 <= MaxUpdates
                 /\ subtask_updates' = Append(subtask_updates,
                        DaoRow(subtask_id, "Note", old_phase_id, new_phase_id,
                               IF note = NoNote THEN "No phase change" ELSE note))
                 /\ last' = Result("dao.change_subtask_phase", "returned")
                 /\ UNCHANGED subtasks
            ELSE IF ~is_allowed_phase_change(old_phase_id, new_phase_id)
            THEN /\ last' = Result("dao.change_subtask_phase", "ValueError")
                 /\ UNCHANGED <<subtasks, subtask_updates>>
            ELSE IF TriggerMessages(old_phase_id, new_phase_id) # {}
            THEN /\ last' = Result("dao.change_subtask_phase", "IntegrityError")
                 /\ UNCHANGED <<subtasks, subtask_updates>>
            ELSE /\ Written + 1 <= MaxUpdates
                 /\ subtasks' = [subtasks EXCEPT ![subtask_id].phase = new_phase_id]
                 /\ subtask_updates' = Append(subtask_updates,
                        DaoRow(subtask_id, "Phase Change", old_phase_id, new_phase_id, note))
                 /\ last' = Result("dao.change_subtask_phase", "returned")

NextDao ==
    \/ \E i \in RequestIds, p \in Phases, n \in Notes : change_project_phase(i, p, n)
    \/ \E i \in RequestIds, p \in Phases, n \in Notes : dao_change_task_phase(i, p, n)
    \/ \E i \in RequestIds, p \in Phases, n \in Notes : dao_change_subtask_phase(i, p, n)

\* A seeded database with the history tables of models/dao.py
InitDao == InitStore /\ table_info = DaoTable

SpecDao == InitDao /\ [][NextDao]_vars

\* C11: a call of dao.change_project_phase, dao.change_task_phase or
\* dao.change_subtask_phase on a missing entity, with the entity's current
\* phase as target, or with a target the table of transitions does not allow,
\* ends by returning a value and not by raising an exception.
C11_ExpectedOutcomesAreReturned ==
    [][\A i \in RequestIds, p \in Phases, n \in Notes :
        /\ (/\ last'.op = "dao.change_project_phase"
            /\ (i \notin DOMAIN projects
                  \/ ~is_allowed_phase_change(projects[i].phase, p))
            /\ change_project_phase(i, p, n)) => last'.code = "returned"
        /\ (/\ last'.op = "dao.change_task_phase"
            /\ (i \notin DOMAIN tasks \/ ~is_allowed_phase_change(tasks[i].phase, p))
            /\ dao_change_task_phase(i, p, n)) => last'.code = "returned"
        /\ (/\ last'.op = "dao.change_subtask_phase"
            /\ (i \notin DOMAIN subtasks \/ ~is_allowed_phase_change(subtasks[i].phase, p))
            /\ dao_change_subtask_phase(i, p, n)) => last'.code = "returned"]_vars

\* ------------------------------------- priorities, notes, fields and deletes

\* A priority change that records the new priority as the old one too
set_task_priority_NewAsOld(task_id, new_priority_id, note) ==
    /\ UNCHANGED <<projects, subtasks, project_updates, subtask_updates, repo_failures, calls, migration, timeline>>
    /\ IF task_id \notin DOMAIN tasks
       THEN /\ last' = Result("set_task_priority", "False")
            /\ UNCHANGED <<tasks, task_updates>>
       ELSE /\ Written + 1 <= MaxEdits
            /\ tasks' = [tasks EXCEPT ![task_id].prio = new_priority_id]
            /\ task_updates' = Append(task_updates,
                   Row(task_id, "priority_change", tasks[task_id].phase, tasks[task_id].phase,
                       new_priority_id, new_priority_id, note))
            /\ last' = Result("set_task_priority", "True")

\* SQLiteTaskRepository.set_task_priority with its default reason
set_task_priority(task_id, new_priority_id, note) ==
    LET reason == "priority_change" IN
    /\ UNCHANGED <<projects, subtasks, project_updates, subtask_updates, repo_failures, calls, migration, timeline>>
    /\ IF task_id \notin DOMAIN tasks
       THEN /\ last' = Result("set_task_priority", "False")
            /\ UNCHANGED <<tasks, task_updates>>
       ELSE LET phase_id == tasks[task_id].phase
                old_priority_id == tasks[task_id].prio IN
            /\ Written + 1 <= MaxEdits
            /\ tasks' = [tasks EXCEPT ![task_id].prio = new_priority_id]
            /\ task_updates' = Append(task_updates,
                   Row(task_id, reason, phase_id, phase_id,
                       old_priority_id, new_priority_id, note))
            /\ last' = Result("set_task_priority", "True")

\* SQLiteSubtaskRepository.set_subtask_priority with its default reason
set_subtask_priority(subtask_id, new_priority_id, note) ==
    LET reason == "priority_change" IN
    /\ UNCHANGED <<projects, tasks, project_updates, repo_failures, calls, migration, timeline>>
    /\ IF subtask_id \notin DOMAIN subtasks
       THEN /\ last' = Result("set_subtask_priority", "False")
            /\ UNCHANGED <<subtasks, subtask_updates, task_updates>>
       ELSE LET task_id == subtasks[subtask_id].task_id
                phase_id == subtasks[subtask_id].phase
                old_priority_id == subtasks[subtask_id].prio IN
            /\ Written + 2 <= MaxEdits
            /\ subtasks' = [subtasks EXCEPT ![subtask_id].prio = new_priority_id]
            /\ subtask_updates' = Append(subtask_updates,
                   Row(subtask_id, reason, phase_id, phase_id,
                       old_priority_id, new_priority_id, note))
            /\ task_updates' = Append(task_updates,
                   Row(task_id,
                       IF old_priority_id = new_priority_id THEN "subtask_update"
                       ELSE "subtask_priority_change",
                       phase_id, phase_id, old_priority_id, new_priority_id,
                       SubtaskTag(subtask_id, IF note = NoNote THEN reason ELSE note)))
            /\ last' = Result("set_subtask_priority", "True")

\* SQLiteProjectRepository.set_project_priority with its default reason
set_project_priority(project_id, new_priority_id, note) ==
    LET reason == "priority_change" IN
    /\ UNCHANGED <<tasks, subtasks, task_updates, subtask_updates, repo_failures, calls, migration, timeline>>
    /\ IF project_id \notin DOMAIN projects
       THEN /\ last' = Result("set_project_priority", "False")
            /\ UNCHANGED <<projects, project_updates>>
       ELSE LET phase_id == projects[project_id].phase
                old_priority_id == projects[project_id].prio IN
            /\ Written + 1 <= MaxEdits
            /\ projects' = [projects EXCEPT ![project_id].prio = new_priority_id]
            /\ project_updates' = Append(project_updates,
                   Row(project_id, reason, phase_id, phase_id,
                       old_priority_id, new_priority_id, note))
            /\ last' = Result("set_project_priority", "True")

\* TaskTimelineViewModel.add_note over SQLiteTaskUpdatesRepository.add_note:
\* the view model passes the task and the note, so phase_id and priority_id
\* are the repository's defaults
add_note(task_id, note) ==
    LET phase_id == Open
        priority_id == Medium IN
    /\ task_id \in DOMAIN tasks
    /\ Written + 1 <= MaxEdits
    /\ task_updates' = Append(task_updates,
           Row(task_id, "note", phase_id, phase_id, priority_id, priority_id, note))
    /\ last' = Result("add_note", "added")
    /\ UNCHANGED <<projects, tasks, subtasks, project_updates, subtask_updates,
                   repo_failures, calls, migration, timeline>>

\* SQLiteSubtaskUpdatesRepository.add_note called with the subtask and the note
subtask_add_note(subtask_id, note) ==
    LET phase_id == Open
        priority_id == Medium IN
    /\ subtask_id \in DOMAIN subtasks
    /\ Written + 1 <= MaxEdits
    /\ subtask_updates' = Append(subtask_updates,
           Row(subtask_id, "note", phase_id, phase_id, priority_id, priority_id, note))
    /\ last' = Result("subtask_add_note", "added")
    /\ UNCHANGED <<projects, tasks, subtasks, project_updates, task_updates,
                   repo_failures, calls, migration, timeline>>

\* SQLiteProjectRepository.add_project_note
add_project_note(project_id, note) ==
    /\ UNCHANGED <<projects, tasks, subtasks, task_updates, subtask_updates,
                   repo_failures, calls, migration, timeline>>
    /\ IF project_id \notin DOMAIN projects
       THEN /\ last' = Result("add_project_note", "ValueError")
            /\ UNCHANGED project_updates
       ELSE LET phase_id == projects[project_id].phase
                priority_id == projects[project_id].prio IN
            /\ Written + 1 <= MaxEdits
            /\ project_updates' = Append(project_updates,
                   Row(project_id, "note", phase_id, phase_id, priority_id, priority_id, note))
            /\ last' = Result("add_project_note", "added")

\* SQLiteTaskRepository.update_task_fields: has_fields says a name or a
\* description was given
update_task_fields(task_id, has_fields, note) ==
    /\ UNCHANGED <<projects, tasks, subtasks, project_updates, subtask_updates,
                   repo_failures, calls, migration, timeline>>
    /\ IF task_id \notin DOMAIN tasks
       THEN /\ last' = Result("update_task_fields", "False")
            /\ UNCHANGED task_updates
       ELSE IF note # NoNote
       THEN /\ Written + 1 <= MaxEdits
            /\ task_updates' = Append(task_updates,
                   Row(task_id, "update", tasks[task_id].phase, tasks[task_id].phase,
                       tasks[task_id].prio, tasks[task_id].prio, note))
            /\ last' = Result("update_task_fields", "True")
       ELSE /\ last' = Result("update_task_fields", IF has_fields THEN "True" ELSE "False")
            /\ UNCHANGED task_updates

\* SQLiteSubtaskRepository.update_subtask_fields
update_subtask_fields(subtask_id, has_fields, note) ==
    /\ UNCHANGED <<projects, tasks, subtasks, project_updates, repo_failures, calls, migration, timeline>>
    /\ IF subtask_id \notin DOMAIN subtasks
       THEN /\ last' = Result("update_subtask_fields", "False")
            /\ UNCHANGED <<subtask_updates, task_updates>>
       ELSE IF note # NoNote
       THEN LET sub == subtasks[subtask_id] IN
            /\ Written + 2 <= MaxEdits
            /\ subtask_updates' = Append(subtask_updates,
                   Row(subtask_id, "update", sub.phase, sub.phase, sub.prio, sub.prio, note))
            /\ task_updates' = Append(task_updates,
                   Row(sub.task_id, "subtask_update", sub.phase, sub.phase,
                       sub.prio, sub.prio, SubtaskTag(subtask_id, note)))
            /\ last' = Result("update_subtask_fields", "True")
       ELSE /\ last' = Result("update_subtask_fields", IF has_fields THEN "True" ELSE "False")
            /\ UNCHANGED <<subtask_updates, task_updates>>

\* What DELETE FROM tasks does to the other tables: the subtasks of the task
\* go with it, the history tables are not touched
TaskDeleteCascade(task_id) ==
    /\ subtasks' = [i \in {j \in DOMAIN subtasks : subtasks[j].task_id # task_id} |->
                       subtasks[i]]
    /\ UNCHANGED <<project_updates, task_updates, subtask_updates>>

\* A delete that takes the task's history rows with it
delete_task_WithHistory(task_id) ==
    /\ UNCHANGED <<projects, subtasks, project_updates, subtask_updates, repo_failures, calls, migration, timeline>>
    /\ tasks' = [i \in DOMAIN tasks \ {task_id} |-> tasks[i]]
    /\ task_updates' = SelectSeq(task_updates, LAMBDA r : r.eid # task_id)
    /\ last' = Result("delete_task", IF task_id \in DOMAIN tasks THEN "True" ELSE "False")

\* SQLiteTaskRepository.delete_task
delete_task(task_id) ==
    /\ UNCHANGED <<projects, repo_failures, calls, migration, timeline>>
    /\ IF task_id \notin DOMAIN tasks
       THEN /\ last' = Result("delete_task", "False")
            /\ UNCHANGED <<tasks, subtasks, project_updates, task_updates, subtask_updates>>
       ELSE /\ tasks' = [i \in DOMAIN tasks \ {task_id} |-> tasks[i]]
            /\ TaskDeleteCascade(task_id)
            /\ last' = Result("delete_task", "True")

\* SQLiteSubtaskRepository.delete_subtask
delete_subtask(subtask_id) ==
    /\ UNCHANGED <<projects, tasks, project_updates, subtask_updates, repo_failures, calls, migration, timeline>>
    /\ IF subtask_id \notin DOMAIN subtasks
       THEN /\ last' = Result("delete_subtask", "False")
            /\ UNCHANGED <<subtasks, task_updates>>
       ELSE LET task_id == subtasks[subtask_id].task_id
                priority_id == subtasks[subtask_id].prio IN
            /\ Written + 1 <= MaxEdits
            /\ subtasks' = [i \in DOMAIN subtasks \ {subtask_id} |-> subtasks[i]]
            /\ task_updates' = Append(task_updates,
                   Row(task_id, "subtask_delete", Open, Open, priority_id, priority_id,
                       "[subtask #1] deleted"))
            /\ last' = Result("delete_subtask", "True")

\* The priority the editing sessions raise an entity to
EditPriorities == {High}

NextEdit ==
    \/ \E i \in RequestIds, q \in EditPriorities, n \in Notes : set_task_priority(i, q, n)
    \/ \E i \in RequestIds, q \in EditPriorities, n \in Notes : set_subtask_priority(i, q, n)
    \/ \E i \in RequestIds, q \in EditPriorities, n \in Notes : set_project_priority(i, q, n)
    \/ \E i \in RequestIds : add_note(i, "n")
    \/ \E i \in RequestIds : subtask_add_note(i, "n")
    \/ \E i \in RequestIds : add_project_note(i, "n")
    \/ \E i \in RequestIds, f \in BOOLEAN, n \in Notes : update_task_fields(i, f, n)
    \/ \E i \in RequestIds, f \in BOOLEAN, n \in Notes : update_subtask_fields(i, f, n)
    \/ \E i \in RequestIds : delete_task(i)
    \/ \E i \in RequestIds : delete_subtask(i)
    \/ \E i \in RequestIds, p \in Phases, n \in Notes :
          change_task_phase(i, p, "phase_change", n) /\ Written + 1 <= MaxEdits

SpecEdit == Init /\ [][NextEdit]_vars

NextPrio ==
    \/ \E i \in RequestIds, q \in Priorities, n \in Notes : set_task_priority(i, q, n)
    \/ \E i \in RequestIds, q \in Priorities, n \in Notes : set_subtask_priority(i, q, n)
    \/ \E i \in RequestIds, q \in Priorities, n \in Notes : set_project_priority(i, q, n)

SpecPrio == Init /\ [][NextPrio]_vars

\* A history table after a step still starts with every row it had before
KeepsRows(before, after) ==
    \/ after = before
    \/ /\ Len(after) >= Len(before)
       /\ SubSeq(after, 1, Len(before)) = before

C13_NoteCarriesStoredPhaseAndPriority ==
    [][\A i \in RequestIds :
        /\ (/\ last'.op = "add_note"
            /\ add_note(i, "n"))
           => LET r == task_updates'[Len(task_updates')] IN
              /\ r.old = tasks[i].phase /\ r.new = tasks[i].phase
              /\ r.oprio = tasks[i].prio /\ r.nprio = tasks[i].prio
        /\ (/\ last'.op = "subtask_add_note"
            /\ subtask_add_note(i, "n"))
           => LET r == subtask_updates'[Len(subtask_updates')] IN
              /\ r.old = subtasks[i].phase /\ r.new = subtasks[i].phase
              /\ r.oprio = subtasks[i].prio /\ r.nprio = subtasks[i].prio
        /\ (/\ last'.op = "add_project_note"
            /\ last'.code = "added"
            /\ add_project_note(i, "n"))
           => LET r == project_updates'[Len(project_updates')] IN
              /\ r.old = projects[i].phase /\ r.new = projects[i].phase
              /\ r.oprio = projects[i].prio /\ r.nprio = projects[i].prio]_vars

\* The row a priority change from p to q appends for an entity in phase ph
IsPriorityRow(r, ph, p, q) ==
    /\ r.old = ph /\ r.new = ph
    /\ r.oprio = p /\ r.nprio = q

\* C14: for an existing task, subtask or project whose priority is p, and a
\* priority q other than p, set_task_priority, set_subtask_priority and
\* set_project_priority succeed, store q as the priority, leave the phase
\* alone and append to the entity's own history one row with old priority p,
\* new priority q and the current phase as old and new phase.
C14_PriorityChangeWritesOneRecord ==
    [][/\ last'.op = "set_task_priority" =>
          \A i \in RequestIds, q \in Priorities, n \in Notes :
             (/\ i \in DOMAIN tasks
              /\ tasks[i].prio # q
              /\ set_task_priority(i, q, n))
             => /\ last'.code = "True"
                /\ tasks'[i].prio = q
                /\ tasks'[i].phase = tasks[i].phase
                /\ Len(RowsOf(task_updates', i)) = Len(RowsOf(task_updates, i)) + 1
                /\ KeepsRows(RowsOf(task_updates, i), RowsOf(task_updates', i))
                /\ IsPriorityRow(task_updates'[Len(task_updates')],
                                 tasks[i].phase, tasks[i].prio, q)
       /\ last'.op = "set_subtask_priority" =>
          \A i \in RequestIds, q \in Priorities, n \in Notes :
             (/\ i \in DOMAIN subtasks
              /\ subtasks[i].prio # q
              /\ set_subtask_priority(i, q, n))
             => /\ last'.code = "True"
                /\ subtasks'[i].prio = q
                /\ subtasks'[i].phase = subtasks[i].phase
                /\ Len(RowsOf(subtask_updates', i)) = Len(RowsOf(subtask_updates, i)) + 1
                /\ KeepsRows(RowsOf(subtask_updates, i), RowsOf(subtask_updates', i))
                /\ IsPriorityRow(subtask_updates'[Len(subtask_updates')],
                                 subtasks[i].phase, subtasks[i].prio, q)
       /\ last'.op = "set_project_priority" =>
          \A i \in RequestIds, q \in Priorities, n \in Notes :
             (/\ i \in DOMAIN projects
              /\ projects[i].prio # q
              /\ set_project_priority(i, q, n))
             => /\ last'.code = "True"
                /\ projects'[i].prio = q
                /\ projects'[i].phase = projects[i].phase
                /\ Len(RowsOf(project_updates', i)) = Len(RowsOf(project_updates, i)) + 1
                /\ KeepsRows(RowsOf(project_updates, i), RowsOf(project_updates', i))
                /\ IsPriorityRow(project_updates'[Len(project_updates')],
                                 projects[i].phase, projects[i].prio, q)]_vars

\* A subtask that is not Open went from Medium to Critical and its history
\* holds the row of that change
C14_Witness ==
    /\ last = Result("set_subtask_priority", "True")
    /\ 1 \in DOMAIN subtasks
    /\ subtasks[1].phase # Open
    /\ subtasks[1].prio = Critical
    /\ \E k \in 1..Len(subtask_updates) :
          /\ subtask_updates[k].eid = 1
          /\ IsPriorityRow(subtask_updates[k], subtasks[1].phase, Medium, Critical)

\* -------------------------------------------------------------- migrations

\* The *.sql files of the migrations directory, in sorted order
ScriptNames == <<"001.sql", "002.sql", "003.sql">>

\* What the statements of a script do when they are executed, in order
Bodies == {<<"ok", "ok">>, <<"fail", "ok">>, <<"ok", "fail">>}

\* The database has no column for a hash
NoHash == "none"

\* sha256_bytes of a script's text
sha256_bytes(text) ==
    CASE text = "v1" -> "d1"
      [] text = "v2" -> "d2"

Script(name, text, statements) == [name |-> name, text |-> text, statements |-> statements]

\* The text of a script whose file is not in the directory
NoFile == "absent"

\* list_migration_files: the scripts the directory holds, sorted by filename
list_migration_files ==
    SelectSeq([k \in 1..Len(scripts) |-> k], LAMBDA k : scripts[k].text # NoFile)

\* The filenames the ledger holds
applied == {r.filename : r \in schema_migrations}

\* All of a script's statements are in the database
Executed(k) == effects[k] = Len(scripts[k].statements)

Fails(script) == \E j \in 1..Len(script.statements) : script.statements[j] = "fail"

FirstFail(script) ==
    CHOOSE j \in 1..Len(script.statements) :
        /\ script.statements[j] = "fail"
        /\ \A i \in 1..(j - 1) : script.statements[i] = "ok"

\* sqlite3's Connection.executescript on a connection with isolation_level
\* None: a transaction that is open is committed first, then the statements
\* run one by one, each committed as it ends, up to the first that fails.
\* held is how many statements of the script the database holds already.
executescript(in_transaction, script, held) ==
    [in_transaction |-> FALSE,
     raised |-> Fails(script),
     held |-> IF ~Fails(script) THEN Len(script.statements)
              ELSE IF held > FirstFail(script) - 1 THEN held
              ELSE FirstFail(script) - 1]

\* tools/migrate.exec_script: BEGIN, executescript, then ROLLBACK or COMMIT;
\* either of the two raises OperationalError when no transaction is open
exec_script(script, held) ==
    LET r == executescript(TRUE, script, held) IN
    [raised |-> IF r.raised
                THEN IF r.in_transaction THEN "Error" ELSE "OperationalError"
                ELSE IF r.in_transaction THEN "none" ELSE "OperationalError",
     held |-> IF r.raised /\ r.in_transaction THEN held ELSE r.held]

\* tools/migrate.ensure_migrations_table: what it raises
ensure_migrations_table ==
    exec_script(Script("schema_migrations", "v1", <<"ok">>), 0).raised

\* The loop of tools/migrate.apply_migrations from script k on; seen is the
\* ledger as get_applied read it before the loop
RECURSIVE apply_loop(_, _, _)
apply_loop(k, seen, st) ==
    IF k > Len(scripts) THEN st
    ELSE IF scripts[k].text = NoFile THEN apply_loop(k + 1, seen, st)
    ELSE LET name == scripts[k].name
             digest == sha256_bytes(scripts[k].text) IN
         IF \E r \in seen : r.filename = name
         THEN apply_loop(k + 1, seen,
                  IF \E r \in seen : r.filename = name /\ r.sha256 # digest
                  THEN [st EXCEPT !.warnings = @ \cup {name}]
                  ELSE st)
         ELSE LET r == exec_script(scripts[k], st.effects[k]) IN
              IF r.raised # "none"
              THEN [st EXCEPT !.effects[k] = r.held, !.raised = r.raised]
              ELSE apply_loop(k + 1, seen,
                       [st EXCEPT !.effects[k] = r.held,
                                  !.ledger = @ \cup {[filename |-> name, sha256 |-> digest]},
                                  !.applied_now = Append(@, k)])

\* tools/migrate.apply_migrations over the sorted directory
apply_migrations ==
    /\ run.pc = "idle"
    /\ UNCHANGED <<tables, repo_failures, calls, scripts, table_info, timeline>>
    /\ IF ensure_migrations_table # "none"
       THEN /\ last' = Result("apply_migrations", ensure_migrations_table)
            /\ run' = [IdleRun EXCEPT !.repeat = (last.op = "apply_migrations")]
            /\ UNCHANGED <<effects, schema_migrations>>
       ELSE LET st == apply_loop(1, schema_migrations,
                          [effects |-> effects, ledger |-> schema_migrations,
                           applied_now |-> <<>>, warnings |-> {}, raised |-> "none"]) IN
            /\ effects' = st.effects
            /\ schema_migrations' = st.ledger
            /\ run' = [IdleRun EXCEPT !.done = st.applied_now, !.warnings = st.warnings,
                                      !.repeat = (last.op = "apply_migrations")]
            /\ last' = Result("apply_migrations",
                              IF st.raised = "none" THEN "returned" ELSE st.raised)

\* tools/migrate.cmd_status: it lists the applied and the pending scripts
cmd_status ==
    /\ run.pc = "idle"
    /\ UNCHANGED <<tables, repo_failures, calls, scripts, effects, schema_migrations, table_info, timeline>>
    /\ run' = IdleRun
    /\ last' = Result("cmd_status",
                      IF ensure_migrations_table # "none" THEN ensure_migrations_table
                      ELSE "returned")

\* Database.run_migrations up to the loop, and its return when nothing is pending
run_migrations ==
    LET to_apply == SelectSeq(list_migration_files,
                              LAMBDA k : scripts[k].name \notin applied) IN
    /\ run.pc = "idle"
    /\ UNCHANGED <<tables, repo_failures, calls, scripts, effects, schema_migrations, table_info, timeline>>
    /\ IF to_apply = <<>>
       THEN /\ run' = [IdleRun EXCEPT !.repeat = (last.op = "run_migrations")]
            /\ last' = Result("run_migrations", "returned")
       ELSE /\ run' = [IdleRun EXCEPT !.pc = "pending", !.todo = to_apply,
                                      !.repeat = (last.op = "run_migrations")]
            /\ last' = Result("run_migrations", "running")

\* A run that goes on with the next script when one has raised
apply_sql_Continue ==
    LET k == Head(run.todo)
        r == executescript(FALSE, scripts[k], effects[k]) IN
    /\ run.pc = "pending"
    /\ UNCHANGED <<tables, repo_failures, calls, scripts, schema_migrations, table_info, timeline>>
    /\ effects' = [effects EXCEPT ![k] = r.held]
    /\ IF r.raised /\ Tail(run.todo) # <<>>
       THEN /\ run' = [run EXCEPT !.todo = Tail(@)]
            /\ UNCHANGED last
       ELSE IF r.raised
       THEN /\ run' = IdleRun
            /\ last' = Result("run_migrations", "OperationalError")
       ELSE /\ run' = [run EXCEPT !.pc = "executed"]
            /\ UNCHANGED last

\* Database.run_migrations, the apply_sql call of the loop
apply_sql ==
    LET k == Head(run.todo)
        r == executescript(FALSE, scripts[k], effects[k]) IN
    /\ run.pc = "pending"
    /\ UNCHANGED <<tables, repo_failures, calls, scripts, schema_migrations, table_info, timeline>>
    /\ effects' = [effects EXCEPT ![k] = r.held]
    /\ IF r.raised
       THEN /\ run' = IdleRun
            /\ last' = Result("run_migrations", "OperationalError")
       ELSE /\ run' = [run EXCEPT !.pc = "executed"]
            /\ UNCHANGED last

\* Database.run_migrations, the INSERT INTO schema_migrations of the loop, and
\* the return after the last script
record_applied ==
    LET k == Head(run.todo) IN
    /\ run.pc = "executed"
    /\ UNCHANGED <<tables, repo_failures, calls, scripts, effects, table_info, timeline>>
    /\ schema_migrations' =
           schema_migrations \cup {[filename |-> scripts[k].name, sha256 |-> NoHash]}
    /\ IF Tail(run.todo) = <<>>
       THEN /\ run' = [IdleRun EXCEPT !.done = Append(run.done, k), !.repeat = run.repeat]
            /\ last' = Result("run_migrations", "returned")
       ELSE /\ run' = [run EXCEPT !.pc = "pending", !.todo = Tail(@), !.done = Append(@, k)]
            /\ UNCHANGED last

\* The process ends while Database.run_migrations is in its loop
interrupt ==
    /\ run.pc # "idle"
    /\ UNCHANGED <<tables, repo_failures, calls, scripts, effects, schema_migrations, table_info, timeline>>
    /\ run' = IdleRun
    /\ last' = Result("run_migrations", "interrupted")

\* Somebody edits the text of a script that is in the ledger
edit_script(k) ==
    /\ scripts[k].name \in applied
    /\ scripts[k].text = "v1"
    /\ scripts' = [scripts EXCEPT ![k].text = "v2"]
    /\ last' = Result("edit_script", "edited")
    /\ UNCHANGED <<tables, repo_failures, calls, effects, schema_migrations, run, table_info, timeline>>

\* Somebody adds a script file to the directory between two runs
add_script(k) ==
    /\ run.pc = "idle"
    /\ scripts[k].text = NoFile
    /\ scripts' = [scripts EXCEPT ![k].text = "v1"]
    /\ last' = Result("add_script", "added")
    /\ UNCHANGED <<tables, repo_failures, calls, effects, schema_migrations, run, table_info, timeline>>

\* A directory of up to three scripts, any of which may hold a failing
\* statement, and a database that no migration has touched
InitMig ==
    /\ projects = [i \in ProjectIds |-> ProjectRow(Open, Medium)]
    /\ tasks = [i \in {} |-> TaskRow(Open, Medium, 1)]
    /\ subtasks = [i \in {} |-> SubtaskRow(Open, Medium, 1)]
    /\ project_updates = <<>>
    /\ task_updates = <<>>
    /\ subtask_updates = <<>>
    /\ last = Result("init", "none")
    /\ repo_failures = 0
    /\ calls = [c \in Callers |-> IdleCall]
    /\ \E b \in [DOMAIN ScriptNames -> Bodies], files \in SUBSET DOMAIN ScriptNames :
          scripts = [k \in DOMAIN ScriptNames |->
                        Script(ScriptNames[k], IF k \in files THEN "v1" ELSE NoFile, b[k])]
    /\ effects = [k \in DOMAIN ScriptNames |-> 0]
    /\ schema_migrations = {}
    /\ run = IdleRun
    /\ table_info = Rev068
    /\ NoTimeline

NextMig ==
    \/ run_migrations
    \/ apply_sql
    \/ record_applied
    \/ interrupt
    \/ apply_migrations
    \/ cmd_status
    \/ \E k \in DOMAIN ScriptNames : edit_script(k)
    \/ \E k \in DOMAIN ScriptNames : add_script(k)

SpecMig == InitMig /\ [][NextMig]_vars

\* C15: in every state a run of the migrations can reach, a failure or an
\* interruption between a script and its ledger row included, a script's
\* statements are in the database exactly when its filename is in
\* schema_migrations, and no script has only some of its statements there.
C15_ScriptAndLedgerRowAreOneUnit ==
    \A k \in DOMAIN scripts :
        /\ Executed(k) <=> scripts[k].name \in applied
        /\ effects[k] \in {0, Len(scripts[k].statements)}

\* C16: with every script sound and the directory unchanged, a call of
\* Database.run_migrations or of tools/migrate.apply_migrations made right
\* after a call of the same function returns an empty list, runs no script
\* and adds no ledger row.
C16_SecondApplyAppliesNothing ==
    [][/\ (/\ last = Result("run_migrations", "returned")
           /\ run_migrations)
          => /\ last' = Result("run_migrations", "returned")
             /\ run'.done = <<>>
             /\ UNCHANGED <<effects, schema_migrations>>
       /\ (/\ last.op = "apply_migrations"
           /\ \A k \in DOMAIN scripts : ~Fails(scripts[k])
           /\ apply_migrations)
          => /\ last' = Result("apply_migrations", "returned")
             /\ run'.done = <<>>
             /\ UNCHANGED <<effects, schema_migrations>>]_vars

\* C17: when the script a run executes fails, the run stops there: the
\* scripts it applied before are executed and in the ledger, the failing one
\* is not in the ledger, and the ones after it are neither executed nor
\* recorded by the run.
C17_ApplyStopsAtFailingScript ==
    [][(/\ run.pc = "pending"
        /\ Fails(scripts[Head(run.todo)])
        /\ apply_sql)
       => /\ run'.pc = "idle"
          /\ last' = Result("run_migrations", "OperationalError")
          /\ \A j \in 1..Len(run.done) :
                /\ effects'[run.done[j]] = Len(scripts[run.done[j]].statements)
                /\ scripts[run.done[j]].name \in applied'
          /\ scripts[Head(run.todo)].name \notin applied'
          /\ \A j \in 2..Len(run.todo) :
                /\ effects'[run.todo[j]] = effects[run.todo[j]]
                /\ scripts[run.todo[j]].name \notin applied']_vars

\* The run stopped at the second of three scripts: the first is recorded, the
\* second is not, the third was never started
C17_Witness ==
    /\ last = Result("run_migrations", "OperationalError")
    /\ Executed(1) /\ scripts[1].name \in applied
    /\ Fails(scripts[2]) /\ scripts[2].name \notin applied
    /\ effects[3] = 0 /\ scripts[3].name \notin applied

\* C18: after the text of a script that is in the ledger has been changed,
\* the next cmd_status, the next apply_migrations and the next
\* Database.run_migrations each report a warning that names the script.
C18_EditedScriptIsReported ==
    [][\A k \in DOMAIN scripts :
        (/\ scripts[k].name \in applied
         /\ scripts[k].text # "v1"
         /\ last'.op \in {"cmd_status", "apply_migrations", "run_migrations"}
         /\ (cmd_status \/ apply_migrations \/ run_migrations))
        => scripts[k].name \in run'.warnings]_vars

\* ---------------------------------------------------------------- timeline

\* A history row as _coalesce_updates gets it; a note is the sequence of its
\* lines, and the empty sequence stands for no note
Update(updated_at_utc, reason, note, old_phase_id, new_phase_id, old_priority_id, new_priority_id) ==
    [updated_at_utc |-> updated_at_utc, reason |-> reason, note |-> note,
     old_phase_id |-> old_phase_id, new_phase_id |-> new_phase_id,
     old_priority_id |-> old_priority_id, new_priority_id |-> new_priority_id]

\* _parse_ts: the time of a timestamp in seconds, None for an empty one
_parse_ts(s) == IF s = Null THEN Null ELSE s

Abs(x) == IF x < 0 THEN 0 - x ELSE x

\* _merge_reason
_merge_reason(flags, phase_changed, prio_changed) ==
    IF phase_changed /\ prio_changed THEN "update"
    ELSE IF phase_changed THEN "phase_change"
    ELSE IF prio_changed THEN "priority_change"
    ELSE IF "create" \in flags THEN "create"
    ELSE IF "note" \in flags THEN "note"
    ELSE "update"

\* The first occurrence of every element of a sequence, in order
\* A deduplication that keeps every note
Uniq_KeepAll(seq) == seq

RECURSIVE Uniq(_)
Uniq(seq) ==
    IF seq = <<>> THEN <<>>
    ELSE LET rest == Uniq(SubSeq(seq, 1, Len(seq) - 1))
             n == seq[Len(seq)] IN
         IF \E i \in 1..Len(rest) : rest[i] = n THEN rest ELSE Append(rest, n)

\* "\n".join of notes
RECURSIVE Join(_)
Join(notes) == IF notes = <<>> THEN <<>> ELSE Head(notes) \o Join(Tail(notes))

\* The values of one field of a group, None left out
NotNone(group, field) ==
    SelectSeq([i \in 1..Len(group) |-> group[i][field]], LAMBDA v : v # Null)

\* A merge that takes the newest old phase of the group instead of the oldest
merge_NewestOld(group) ==
    LET notes == SelectSeq([i \in 1..Len(group) |-> group[i].note], LAMBDA n : n # <<>>)
        olds == NotNone(group, "old_phase_id")
        news == NotNone(group, "new_phase_id")
        p_olds == NotNone(group, "old_priority_id")
        p_news == NotNone(group, "new_priority_id") IN
    [group[1] EXCEPT
        !.note = IF notes # <<>> THEN Join(Uniq(notes)) ELSE @,
        !.old_phase_id = IF olds # <<>> THEN olds[1] ELSE Null,
        !.new_phase_id = IF news # <<>> THEN news[1] ELSE Null,
        !.old_priority_id = IF p_olds # <<>> THEN p_olds[Len(p_olds)] ELSE Null,
        !.new_priority_id = IF p_news # <<>> THEN p_news[1] ELSE Null]

\* The part of flush the two copies share: the newest row with the group's
\* notes and the group's earliest old and latest new phase and priority
merge(group) ==
    LET notes == SelectSeq([i \in 1..Len(group) |-> group[i].note], LAMBDA n : n # <<>>)
        olds == NotNone(group, "old_phase_id")
        news == NotNone(group, "new_phase_id")
        p_olds == NotNone(group, "old_priority_id")
        p_news == NotNone(group, "new_priority_id") IN
    [group[1] EXCEPT
        !.note = IF notes # <<>> THEN Join(Uniq(notes)) ELSE @,
        !.old_phase_id = IF olds # <<>> THEN olds[Len(olds)] ELSE Null,
        !.new_phase_id = IF news # <<>> THEN news[1] ELSE Null,
        !.old_priority_id = IF p_olds # <<>> THEN p_olds[Len(p_olds)] ELSE Null,
        !.new_priority_id = IF p_news # <<>> THEN p_news[1] ELSE Null]

Differ(old, new) == old # Null /\ new # Null /\ old # new

\* A flush that stamps the merged row with the time of the group's oldest row
flush_OldestStamp(group) ==
    LET merged == merge(group)
        phase_changed == Differ(merged.old_phase_id, merged.new_phase_id)
        prio_changed == Differ(merged.old_priority_id, merged.new_priority_id) IN
    [merged EXCEPT
        !.updated_at_utc = group[Len(group)].updated_at_utc,
        !.old_phase_id = IF phase_changed THEN @ ELSE Null,
        !.new_phase_id = IF phase_changed THEN @ ELSE Null,
        !.old_priority_id = IF prio_changed THEN @ ELSE Null,
        !.new_priority_id = IF prio_changed THEN @ ELSE Null,
        !.reason = _merge_reason({group[i].reason : i \in 1..Len(group)},
                                 phase_changed, prio_changed)]

\* flush of TasksViewModel._coalesce_updates
flush(group) ==
    LET merged == merge(group)
        phase_changed == Differ(merged.old_phase_id, merged.new_phase_id)
        prio_changed == Differ(merged.old_priority_id, merged.new_priority_id) IN
    [merged EXCEPT
        !.old_phase_id = IF phase_changed THEN @ ELSE Null,
        !.new_phase_id = IF phase_changed THEN @ ELSE Null,
        !.old_priority_id = IF prio_changed THEN @ ELSE Null,
        !.new_priority_id = IF prio_changed THEN @ ELSE Null,
        !.reason = _merge_reason({group[i].reason : i \in 1..Len(group)},
                                 phase_changed, prio_changed)]

\* flush of SubtasksTab._coalesce_updates
SubtasksTab_flush(group) ==
    LET merged == merge(group)
        phase_changed == Differ(merged.old_phase_id, merged.new_phase_id)
        prio_changed == Differ(merged.old_priority_id, merged.new_priority_id) IN
    [merged EXCEPT
        !.reason = _merge_reason({group[i].reason : i \in 1..Len(group)},
                                 phase_changed, prio_changed)]

\* The loop of _coalesce_updates from item k on: prev is the time of the
\* first row of the group cur, out the groups that are closed
RECURSIVE walk(_, _, _, _, _)
walk(items, k, prev, cur, out) ==
    IF k > Len(items) THEN Append(out, cur)
    ELSE LET u == items[k]
             ts == _parse_ts(u.updated_at_utc)
             same_bucket ==
                 \/ prev # Null /\ ts # Null /\ Abs(prev - ts) <= window_secs
                 \/ u.updated_at_utc = cur[1].updated_at_utc IN
         IF same_bucket THEN walk(items, k + 1, prev, Append(cur, u), out)
         ELSE walk(items, k + 1, ts, <<u>>, Append(out, cur))

\* The groups _coalesce_updates flushes, in order
buckets(items) ==
    IF items = <<>> THEN <<>>
    ELSE walk(items, 2, _parse_ts(items[1].updated_at_utc), <<items[1]>>, <<>>)

\* TasksViewModel._coalesce_updates with the window load_timeline passes
_coalesce_updates(items) ==
    [b \in 1..Len(buckets(items)) |-> flush(buckets(items)[b])]

\* SubtasksTab._coalesce_updates
SubtasksTab_coalesce_updates(items) ==
    [b \in 1..Len(buckets(items)) |-> SubtasksTab_flush(buckets(items)[b])]

\* TasksViewModel._normalize_changes
_normalize_changes(rows) ==
    [b \in 1..Len(rows) |->
        LET w == rows[b]
            phase_changed == Differ(w.old_phase_id, w.new_phase_id)
            prio_changed == Differ(w.old_priority_id, w.new_priority_id) IN
        [w EXCEPT
            !.old_phase_id = IF phase_changed THEN @ ELSE Null,
            !.new_phase_id = IF phase_changed THEN @ ELSE Null,
            !.old_priority_id = IF prio_changed THEN @ ELSE Null,
            !.new_priority_id = IF prio_changed THEN @ ELSE Null,
            !.reason = _merge_reason({w.reason}, phase_changed, prio_changed)]]

\* The rows the repositories write, without their time: a create, a note, two
\* phase changes that undo each other, a priority change, a priority change
\* to the priority the entity has, a field update with a note, and an update
\* added through TaskTimelineViewModel.add_update, which gives no phases
Shapes ==
    {Update(Null, "create", <<>>, Open, Open, Medium, Medium),
     Update(Null, "note", <<"a">>, Open, Open, Medium, Medium),
     Update(Null, "phase_change", <<"b">>, Open, InProgress, Medium, Medium),
     Update(Null, "phase_change", <<>>, InProgress, InHiatus, Medium, Medium),
     Update(Null, "phase_change", <<>>, InHiatus, InProgress, Medium, Medium),
     Update(Null, "priority_change", <<>>, InProgress, InProgress, Medium, High),
     Update(Null, "priority_change", <<>>, InProgress, InProgress, Medium, Medium),
     Update(Null, "update", <<"a">>, Open, Open, Medium, Medium),
     Update(Null, "update", <<"c">>, Null, Null, Medium, Medium)}

\* Seconds between a row and the next older one: inside the window, on its
\* edge and outside it
Gaps == {1, 2, 3}

\* The time of row k when the oldest row is written at second 1
RECURSIVE Stamp(_, _)
Stamp(gaps, k) == IF k > Len(gaps) THEN 1 ELSE gaps[k] + Stamp(gaps, k + 1)

\* TasksViewModel.load_timeline, the coalescing pass over the rows it listed
coalesce_task ==
    /\ last.op = "init"
    /\ shown' = _coalesce_updates(updates)
    /\ last' = Result("_coalesce_updates", "returned")
    /\ UNCHANGED <<tables, repo_failures, calls, migration, updates>>

\* SubtasksTab, the coalescing pass over the rows it listed
coalesce_subtask ==
    /\ last.op = "init"
    /\ shown' = SubtasksTab_coalesce_updates(updates)
    /\ last' = Result("SubtasksTab._coalesce_updates", "returned")
    /\ UNCHANGED <<tables, repo_failures, calls, migration, updates>>

\* TasksViewModel.load_timeline: coalesce, then normalize, the rows it listed
load_timeline ==
    /\ last.op = "init"
    /\ shown' = _normalize_changes(_coalesce_updates(updates))
    /\ last' = Result("load_timeline", "emitted")
    /\ UNCHANGED <<tables, repo_failures, calls, migration, updates>>

\* Up to MaxLen rows of one entity's history, newest first
InitTimeline ==
    /\ projects = [i \in ProjectIds |-> ProjectRow(Open, Medium)]
    /\ tasks = [i \in TaskIds |-> TaskRow(Open, Medium, 1)]
    /\ subtasks = [i \in SubtaskIds |-> SubtaskRow(Open, Medium, 1)]
    /\ project_updates = <<>>
    /\ task_updates = <<>>
    /\ subtask_updates = <<>>
    /\ last = Result("init", "none")
    /\ repo_failures = 0
    /\ calls = [c \in Callers |-> IdleCall]
    /\ NoMigration
    /\ \E n \in 0..MaxLen :
          \E rows \in [1..n -> Shapes], gaps \in [1..(n - 1) -> Gaps] :
             updates = [k \in 1..n |->
                           [rows[k] EXCEPT !.updated_at_utc = Stamp(gaps, k)]]
    /\ shown = <<>>

NextTimeline ==
    \/ coalesce_task
    \/ coalesce_subtask
    \/ load_timeline

SpecTimeline == InitTimeline /\ [][NextTimeline]_vars

\* C19: _coalesce_updates of TasksViewModel and of SubtasksTab, given one
\* history row, return one row that has the same timestamp, reason, note,
\* old and new phase and old and new priority as the row given.
C19_SingleRecordIsUnchanged ==
    (/\ last.op \in {"_coalesce_updates", "SubtasksTab._coalesce_updates"}
     /\ Len(updates) = 1)
    => shown = updates

\* C20: for every newest-first sequence of history rows, a second pass of
\* _coalesce_updates (TasksViewModel's or SubtasksTab's, window of 2 seconds)
\* over the result of the first returns that result: the same number of rows
\* and the same value in every field.
C20_CoalescingIsIdempotent ==
    /\ last.op = "_coalesce_updates" => _coalesce_updates(shown) = shown
    /\ last.op = "SubtasksTab._coalesce_updates"
          => SubtasksTab_coalesce_updates(shown) = shown

\* Three rows came in, the first pass merged two of them into a row that
\* shows a phase change and kept the third apart
C20_Witness ==
    /\ last.op = "_coalesce_updates"
    /\ Len(updates) = 3
    /\ Len(shown) = 2
    /\ \E b \in 1..Len(shown) :
          /\ shown[b].old_phase_id # Null
          /\ shown[b].note = <<"b", "a">>

\* The value a field has in the oldest row of a group that gives one, None
\* when no row does; the rows of a group are newest first
OldestValue(group, field) ==
    IF \A i \in 1..Len(group) : group[i][field] = Null THEN Null
    ELSE group[CHOOSE i \in 1..Len(group) :
                  /\ group[i][field] # Null
                  /\ \A j \in (i + 1)..Len(group) : group[j][field] = Null][field]

\* The value a field has in the newest row of a group that gives one
NewestValue(group, field) ==
    IF \A i \in 1..Len(group) : group[i][field] = Null THEN Null
    ELSE group[CHOOSE i \in 1..Len(group) :
                  /\ group[i][field] # Null
                  /\ \A j \in 1..(i - 1) : group[j][field] = Null][field]

\* The pair a timeline row shows for a net change from old to new
NetPair(old, new) ==
    IF old # Null /\ new # Null /\ old # new THEN <<old, new>> ELSE <<Null, Null>>

\* C21: after load_timeline has coalesced and normalized a task's rows, every
\* row it shows has as phase pair the oldest old phase and the newest new
\* phase its bucket gives, and as priority pair the oldest old and the newest
\* new priority; when the two values are equal or one is missing the row shows
\* no pair at all, so no row shows a pair with old = new.
C21_NetChangePerBucket ==
    last.op = "load_timeline" =>
        LET groups == buckets(updates) IN
        /\ Len(shown) = Len(groups)
        /\ \A b \in 1..Len(shown) :
              LET group == groups[b] IN
              /\ <<shown[b].old_phase_id, shown[b].new_phase_id>> =
                    NetPair(OldestValue(group, "old_phase_id"),
                            NewestValue(group, "new_phase_id"))
              /\ <<shown[b].old_priority_id, shown[b].new_priority_id>> =
                    NetPair(OldestValue(group, "old_priority_id"),
                            NewestValue(group, "new_priority_id"))
              /\ shown[b].old_phase_id = Null \/ shown[b].old_phase_id # shown[b].new_phase_id
              /\ shown[b].old_priority_id = Null
                    \/ shown[b].old_priority_id # shown[b].new_priority_id

\* Three rows in one bucket: the two older ones move the phase from Open to
\* In Hiatus, the newest gives no phase, and the row shown has the pair
\* (Open, In Hiatus)
C21_Witness ==
    /\ last.op = "load_timeline"
    /\ Len(updates) = 3
    /\ Len(shown) = 1
    /\ updates[1].old_phase_id = Null
    /\ updates[2].old_phase_id = InProgress
    /\ updates[3].old_phase_id = Open
    /\ shown[1].old_phase_id = Open
    /\ shown[1].new_phase_id = InHiatus

\* The positions in a sequence of rows at which a group of the given groups
\* begins
Starts(groups) ==
    LET cum[b \in 0..Len(groups)] == IF b = 0 THEN 0 ELSE cum[b - 1] + Len(groups[b]) IN
    {cum[b] + 1 : b \in 0..(Len(groups) - 1)}

\* C22: coalescing puts a row into the bucket of the row just before it
\* exactly when the timestamps of the two are at most window_secs seconds apart
\* (or identical), so a run of rows each within the window of its predecessor
\* comes out as one row.
C22_BucketBoundaryIsPredecessorGap ==
    last.op \in {"_coalesce_updates", "SubtasksTab._coalesce_updates"} =>
        /\ Len(shown) = Len(buckets(updates))
        /\ \A k \in 2..Len(updates) :
              k \notin Starts(buckets(updates)) <=>
                 Abs(updates[k - 1].updated_at_utc - updates[k].updated_at_utc) <= window_secs

\* The position of the first row of a group that carries the given note
FirstWith(group, note) ==
    CHOOSE i \in 1..Len(group) :
        /\ group[i].note = note
        /\ \A j \in 1..(i - 1) : group[j].note # note

\* C23: a field edit with a note and, one second later, a phase change with a
\* note come out of coalescing as one row that has the net phase pair and the
\* two notes, the newer first. In general the note of a row shown is made of
\* the non-empty notes of its bucket: each of them is there, none is there
\* twice, and they stand newest first.
C23_NotesOfBucketAreKeptOnce ==
    last.op \in {"_coalesce_updates", "load_timeline"} =>
        LET groups == buckets(updates) IN
        /\ Len(shown) = Len(groups)
        /\ \A b \in 1..Len(shown) :
              LET group == groups[b]
                  given == {group[i].note : i \in 1..Len(group)} \ {<<>>}
                  lines == shown[b].note IN
              /\ Len(lines) = Cardinality(given)
              /\ \A n \in given : \E p \in 1..Len(lines) : <<lines[p]>> = n
              /\ \A p, q \in 1..Len(lines) :
                    p < q => FirstWith(group, <<lines[p]>>) < FirstWith(group, <<lines[q]>>)
        /\ (/\ Len(updates) = 2
            /\ updates[1].updated_at_utc - updates[2].updated_at_utc = 1
            /\ [updates[2] EXCEPT !.updated_at_utc = Null] =
                  Update(Null, "update", <<"a">>, Open, Open, Medium, Medium)
            /\ [updates[1] EXCEPT !.updated_at_utc = Null] =
                  Update(Null, "phase_change", <<"b">>, Open, InProgress, Medium, Medium))
           => /\ Len(shown) = 1
              /\ shown[1].old_phase_id = Open
              /\ shown[1].new_phase_id = InProgress
              /\ shown[1].note = <<"b", "a">>

\* The timeline of a field edit with note "a" and, one second later, a phase
\* change with note "b"
C23_Witness ==
    /\ last.op = "load_timeline"
    /\ Len(updates) = 2
    /\ updates[1].updated_at_utc - updates[2].updated_at_utc = 1
    /\ updates[2].reason = "update"
    /\ updates[2].note = <<"a">>
    /\ updates[1].reason = "phase_change"
    /\ updates[1].note = <<"b">>
    /\ shown[1].note = <<"b", "a">>


\* C24: a row of a task's history whose old and new phase differ records a
\* phase change of that task: the step that writes it moves the task from the
\* old phase of the row to the new one. create_subtask and
\* change_subtask_phase write no such row for a task whose phase they leave
\* alone.
C24_TaskHistoryShowsOwnPhaseChanges ==
    [][\A k \in 1..Len(Appended(task_updates, task_updates')) :
          LET r == Appended(task_updates, task_updates')[k] IN
          r.old # r.new =>
              /\ r.eid \in DOMAIN tasks'
              /\ tasks'[r.eid].phase = r.new
              /\ r.eid \in DOMAIN tasks => tasks[r.eid].phase = r.old]_vars

\* The reasons the history vocabulary names
ReasonVocabulary == {"create", "phase_change", "priority_change", "update", "note"}

\* C25: every row of the three history tables has one of the five reasons
\* create, phase_change, priority_change, update and note.
C25_ReasonsAreInVocabulary ==
    \A table \in {project_updates, task_updates, subtask_updates} :
        \A k \in 1..Len(table) : table[k].reason \in ReasonVocabulary

\* Script k is in the ledger with a hash that is not the hash of its text
Drifted(k) ==
    \E r \in schema_migrations :
        r.filename = scripts[k].name /\ r.sha256 # sha256_bytes(scripts[k].text)

\* C26: apply_migrations that meets a recorded script whose hash has changed
\* does not execute it again, leaves its ledger row as it is, and applies
\* every pending script that comes after it in the same run (as long as none
\* of the pending scripts fails).
C26_DriftIsSkippedAndRunGoesOn ==
    [][(last'.op = "apply_migrations" /\ <<last, run>>' # <<last, run>>) =>
          \A k \in DOMAIN scripts :
              Drifted(k) =>
                  /\ effects'[k] = effects[k]
                  /\ {r \in schema_migrations' : r.filename = scripts[k].name} =
                        {r \in schema_migrations : r.filename = scripts[k].name}
                  /\ (\A j \in DOMAIN scripts :
                          scripts[j].name \notin applied => ~Fails(scripts[j]))
                     => \A j \in (k + 1)..Len(scripts) :
                           scripts[j].text # NoFile => scripts[j].name \in applied']_vars

\* C27: scripts are executed in ascending order of filename over the whole
\* life of a database, runs and files added between runs included: a step
\* that executes statements of a script finds no script with a larger
\* filename executed or recorded.
C27_ScriptsRunInFilenameOrder ==
    [][\A k \in DOMAIN scripts :
          effects'[k] # effects[k] =>
              \A j \in (k + 1)..Len(scripts) :
                  effects[j] = 0 /\ scripts[j].name \notin applied]_vars

\* The first of the candidates that is a column of the table, None when none is
FirstAlias(cols, candidates) ==
    IF \A k \in DOMAIN candidates : candidates[k] \notin cols THEN NoColumn
    ELSE candidates[CHOOSE k \in DOMAIN candidates :
                       /\ candidates[k] \in cols
                       /\ \A j \in 1..(k - 1) : candidates[j] \notin cols]

\* C28: for the timestamp, the old phase and the new phase, set_task_phase and
\* set_subtask_phase write the first candidate name that is a column of the
\* history table, and the note when the table has one; a field with no
\* candidate among the columns is left out of the row, and the row is
\* written and the phase changed all the same.
C28_WriteAdaptsToTheTable ==
    [][last'.op \in {"set_task_phase", "set_subtask_phase"} =>
          /\ history_data(table_info.cols) =
                ({FirstAlias(table_info.cols, _TS_CANDIDATES),
                  FirstAlias(table_info.cols, _OLD_CANDIDATES),
                  FirstAlias(table_info.cols, _NEW_CANDIDATES)} \ {NoColumn})
                \cup ({"note"} \cap table_info.cols)
          /\ \A i \in RequestIds, p \in Phases :
                /\ (/\ last'.op = "set_task_phase"
                    /\ i \in DOMAIN tasks
                    /\ tasks[i].phase # p
                    /\ TriggerMessages(tasks[i].phase, p) = {}
                    /\ set_task_phase(i, p))
                   => /\ last'.code = "ok"
                      /\ tasks'[i].phase = p
                      /\ Len(task_updates') = Len(task_updates) + 1
                /\ (/\ last'.op = "set_subtask_phase"
                    /\ i \in DOMAIN subtasks
                    /\ subtasks[i].phase # p
                    /\ TriggerMessages(subtasks[i].phase, p) = {}
                    /\ set_subtask_phase(i, p))
                   => /\ last'.code = "ok"
                      /\ subtasks'[i].phase = p
                      /\ Len(subtask_updates') = Len(subtask_updates) + 1]_vars

\* ------------------------------------------------ PhaseChangeRequest

\* The request a caller hands to PhaseService.apply; current_phase is the
\* phase the caller believes the entity to be in
PhaseChangeRequest(entity_kind, entity_id, current_phase, target_phase, note) ==
    [entity_kind |-> entity_kind, entity_id |-> entity_id, current_phase |-> current_phase,
     target_phase |-> target_phase, note |-> note]

\* A service that goes on only when the request names the stored phase
PhaseService_apply_TrustsRequest(req) ==
    /\ req.current_phase = _get_current_phase(req.entity_kind, req.entity_id)
    /\ apply(req.entity_kind, req.entity_id, req.target_phase, req.note)

\* PhaseService.apply(req): the fields of the request it reads
PhaseService_apply(req) ==
    apply(req.entity_kind, req.entity_id, req.target_phase, req.note)

\* The request of a caller, as PhaseService.apply gets it
RequestOf(call) ==
    PhaseChangeRequest(call.kind, call.id, call.seen, call.target, call.note)

\* The user interface builds a request; seen is the current_phase it gives
request(caller, req) ==
    /\ last.op # "request"
    /\ calls' = [calls EXCEPT ![caller] =
                    [IdleCall EXCEPT !.pc = "requested", !.kind = req.entity_kind,
                                     !.id = req.entity_id, !.seen = req.current_phase,
                                     !.target = req.target_phase, !.note = req.note]]
    /\ last' = Result("request", "built")
    /\ UNCHANGED <<tables, repo_failures, migration, timeline>>

\* The request goes to PhaseService.apply
serve(caller) ==
    /\ last.op = "request"
    /\ calls[caller].pc = "requested"
    /\ Written + 1 <= MaxRequests
    /\ PhaseService_apply(RequestOf(calls[caller]))

NextRequest ==
    \/ \E k \in Kinds, i \in RequestIds, c \in Phases, t \in Phases, n \in Notes :
          request("A", PhaseChangeRequest(k, i, c, t, n))
    \/ serve("A")

SpecRequest == Init /\ [][NextRequest]_vars

C30_OpenToClosedIsAllowed ==
    [][last'.op = "can_change" =>
          \A c \in Phases, t \in Phases :
              CanChange(c, t) =>
                  /\ <<c, t>> \in EdgeTable \cup {<<Open, Closed>>} => last'.code = "allowed"
                  /\ <<c, t>> \in {<<InProgress, Open>>, <<Closed, Open>>}
                        => last'.code = "not_allowed"]_vars

====
